---- MODULE Spec2Model ----
(***************************************************************************)
(* Terminal Typewriter (src/src/main.js): the paginated document, the      *)
(* deferred overflow check, the page navigator, the text layout function   *)
(* wrapText and the two export chains (saveText, savePNG).                 *)
(*                                                                         *)
(* A page is a record [blocks, active, num]; a Block is a record           *)
(* [kind, text, font, img] with kind "line" (a div.line) or "image" (a     *)
(* div.image-line).  Strings are sequences of one-character strings, so    *)
(* that trimming, splitting and formatting are computed, not assumed.      *)
(* currentPageIndex is 0-based as in the source; TLA+ sequences are        *)
(* 1-based, so the active page is pages[currentPageIndex + 1].             *)
(***************************************************************************)
EXTENDS Integers, Sequences, FiniteSets, TLC

VARIABLES
    pages,              \* let pages = []           (main.js:244)
    currentPageIndex,   \* let currentPageIndex = 0 (main.js:245)
    cursor,             \* window.getSelection(): the line holding the caret and the offset in it
    stateFont,          \* state.font               (main.js:233)
    pending,            \* requestAnimationFrame callbacks queued for the next frame
    running,            \* callbacks of the frame being run that have not run yet
    pageIndicator,      \* pageIndicator.textContent
    prevDisabled,       \* prevPageBtn.disabled
    nextDisabled,       \* nextPageBtn.disabled
    chainSrc,           \* history: index of the page last typed into, -1 once another edit intervened
    chainBlocks,        \* history: the blocks of that page right after the keystroke
    lastOp,             \* history: the handler that ran last and its argument
    wText,              \* wrapText: the text argument
    wMaxWidth,          \* wrapText: the maxWidth argument
    wMetric,            \* wrapText: the font set on ctx, which decides measureText
    wLines,             \* wrapText: the lines returned
    wDone,              \* wrapText has returned
    txtPc,              \* saveText: the await it is suspended at
    txtText,            \* saveText: const text
    txtLog,             \* saveText: the collaborator calls made, with their outcomes
    pngPc,              \* savePNG: the await it is suspended at
    pagesWithContent,   \* savePNG: const pagesWithContent, as 0-based page indices
    pngI,               \* savePNG: the loop variable i
    pngLog,             \* savePNG: the renders and collaborator calls made, with their outcomes
    rPc,                \* createDocumentCanvas: the statement it is at
    rPage,              \* createDocumentCanvas: the children of the editor argument
    rData,              \* createDocumentCanvas: renderData
    rPageHeight,        \* createDocumentCanvas: pageHeight
    rNoise,             \* addPaperTexture: the grain drawn on the canvas
    rStyles,            \* drawCornerOrnaments: the frame styles drawn on the canvas
    rOffsets,           \* createDocumentCanvas: yPosition at each item of the second pass
    rY,                 \* createDocumentCanvas: yPosition
    rendered            \* history: the canvases returned for this page so far

docVars == <<pages, currentPageIndex, cursor, stateFont, pending, running,
             pageIndicator, prevDisabled, nextDisabled, chainSrc, chainBlocks, lastOp>>

wrapVars == <<wText, wMaxWidth, wMetric, wLines, wDone>>

txtVars == <<txtPc, txtText, txtLog>>

pngVars == <<pngPc, pagesWithContent, pngI, pngLog>>

renderVars == <<rPc, rPage, rData, rPageHeight, rNoise, rStyles, rOffsets, rY, rendered>>

----------------------------------------------------------------------------
\* Bounds of the model.

\* blocks in the whole document
MaxBlocks == 3
\* characters in one line
MaxText == 2
\* overflow checks queued by input events before a frame runs
MaxPending == 1
\* rendered height of one visual row of a line (layout of the live view)
RowPx == 400
\* characters the live view fits in one visual row
CharsPerRow == 1

\* characters in a text given to wrapText
MaxWrapLen == 5
\* largest maxWidth given to wrapText, in width units
MaxWrapWidth == 3

\* pages of a document handed to an export
MaxExportPages == 3

\* pages of a document taken in the middle of a session
MaxStepPages == 2

\* blocks on a page given to the renderer
MaxRenderBlocks == 3
\* width of the text area of the canvas, in the units of the measure function
PageTextWidth == 2

\* Program constants.
MAX_PAGE_HEIGHT == 1200
PagePadding == 80

DefaultFont == "special-elite"
Fonts == {"special-elite", "adler"}
TypeChars == {"a"}
Whitespace == {" ", "\n"}
\* natural <<width, height>> of the images that can be dropped
ImageSizes == {<<200, 150>>, <<1280, 600>>}

----------------------------------------------------------------------------
\* Sequences and strings.

RemoveAt(s, i) == SubSeq(s, 1, i - 1) \o SubSeq(s, i + 1, Len(s))

InsertAt(s, i, x) == SubSeq(s, 1, i - 1) \o <<x>> \o SubSeq(s, i, Len(s))

\* String.prototype.trim() leaves nothing: the text is empty or all whitespace
IsBlank(text) == \A i \in 1..Len(text) : text[i] \in Whitespace

RECURSIVE Digits(_)
\* decimal digits of a number, as template literals and + format it
Digits(n) ==
    LET d == <<"0", "1", "2", "3", "4", "5", "6", "7", "8", "9">>
    IN IF n < 10 THEN <<d[n + 1]>> ELSE Digits(n \div 10) \o <<d[(n % 10) + 1]>>

----------------------------------------------------------------------------
\* Blocks and pages.

Line(text, font) == [kind |-> "line", text |-> text, font |-> font, img |-> <<0, 0>>]

Image(size) == [kind |-> "image", text |-> <<>>, font |-> "none", img |-> size]

NoLine == [blk |-> 0, off |-> 0]

\* index of the first div.line of an editor, 0 when it has none: querySelector('.line')
FirstLineIndex(blocks) ==
    IF \E i \in 1..Len(blocks) : blocks[i].kind = "line"
    THEN CHOOSE i \in 1..Len(blocks) :
            /\ blocks[i].kind = "line"
            /\ \A j \in 1..(i - 1) : blocks[j].kind # "line"
    ELSE 0

\* index of the last div.line of an editor, 0 when it has none
LastLineIndex(blocks) ==
    IF \E i \in 1..Len(blocks) : blocks[i].kind = "line"
    THEN CHOOSE i \in 1..Len(blocks) :
            /\ blocks[i].kind = "line"
            /\ \A j \in (i + 1)..Len(blocks) : blocks[j].kind # "line"
    ELSE 0

RECURSIVE TotalBlocks(_)
TotalBlocks(pgs) ==
    IF pgs = <<>> THEN 0 ELSE Len(Head(pgs).blocks) + TotalBlocks(Tail(pgs))

\* child.offsetHeight: the live view lays a line out in rows of CharsPerRow
\* characters, an empty line keeping one row; an image takes its natural height
OffsetHeight(b) ==
    IF b.kind = "image" THEN b.img[2]
    ELSE LET n == Len(b.text)
             rows == IF n = 0 THEN 1 ELSE (n + CharsPerRow - 1) \div CharsPerRow
         IN rows * RowPx

RECURSIVE SumHeights(_)
SumHeights(blocks) ==
    IF blocks = <<>> THEN 0 ELSE OffsetHeight(Head(blocks)) + SumHeights(Tail(blocks))

\* contentHeight of checkPageOverflow: the children's heights plus the padding
ContentHeight(blocks) == SumHeights(blocks) + PagePadding

----------------------------------------------------------------------------
\* Page navigator.

\* `Seite ${currentPageIndex + 1} / ${pages.length}`
IndicatorText(idx, n) ==
    <<"S", "e", "i", "t", "e", " ">> \o Digits(idx + 1) \o <<" ", "/", " ">> \o Digits(n)

\* FocusCursor with the range collapsed to the end of the first line
FocusCursorEnd(blocks) ==
    LET i == FirstLineIndex(blocks)
    IN IF i = 0 THEN NoLine ELSE [blk |-> i, off |-> Len(blocks[i].text)]

\* focusCurrentPage: the caret goes to the start of the first line of the
\* active page; a page without a line only gets the focus
FocusCursor(blocks) ==
    LET i == FirstLineIndex(blocks)
    IN IF i = 0 THEN NoLine ELSE [blk |-> i, off |-> 0]

\* createNewPage: a page holding one empty line in the selected font, not active
\* NewPage with the class list of the page shown
NewPageActive(font, pageNum) == [blocks |-> <<Line(<<>>, font)>>, active |-> TRUE, num |-> pageNum]

\* its dataset.page is pageNum
NewPage(font, pageNum) == [blocks |-> <<Line(<<>>, font)>>, active |-> FALSE, num |-> pageNum]

\* PushPage with unshift in the place of push
PushPageFront(pgs, font) == <<NewPage(font, Len(pgs) + 1)>> \o pgs

\* pages.push(newPage)
PushPage(pgs, font) == Append(pgs, NewPage(font, Len(pgs) + 1))

\* navigateToPage(index) on a document: the pages with the active flags moved
NavigatePages(pgs, from, to) ==
    LET off == [pgs EXCEPT ![from + 1].active = FALSE]
    IN [off EXCEPT ![to + 1].active = TRUE]

----------------------------------------------------------------------------
\* Overflow controller.

\* ShouldMigrate without the test for two elements
ShouldMigrateAlone(blocks) == ContentHeight(blocks) > MAX_PAGE_HEIGHT

\* the guard of a migration: over the budget and at least two elements
ShouldMigrate(blocks) ==
    ContentHeight(blocks) > MAX_PAGE_HEIGHT /\ Len(blocks) > 1

\* the next page's editor once its first div.line, if blank, is removed
DiscardPlaceholder(next) ==
    LET i == FirstLineIndex(next)
    IN IF i # 0 /\ IsBlank(next[i].text) THEN RemoveAt(next, i) ELSE next

\* nextEditor.insertBefore(lastElement, nextEditor.firstChild)
InsertFirst(lastElement, next) == <<lastElement>> \o next

\* MigrateLast with the last element going to the end of the page before
MigrateLastBack(pgs, idx, font) ==
    LET blocks == pgs[idx + 1].blocks
        lastElement == blocks[Len(blocks)]
        withNext == IF idx = Len(pgs) - 1 THEN PushPage(pgs, font) ELSE pgs
        taken == [withNext EXCEPT ![idx + 1].blocks = SubSeq(blocks, 1, Len(blocks) - 1)]
    IN IF idx = 0 THEN taken
       ELSE [taken EXCEPT ![idx].blocks = Append(@, lastElement)]

\* MigrateLast taking from the page whose keystroke queued the check
MigrateLastEdited(pgs, idx, font) ==
    LET src == IF chainSrc >= 0 THEN chainSrc ELSE idx
        blocks == pgs[src + 1].blocks
        lastElement == blocks[Len(blocks)]
        withNext == IF src = Len(pgs) - 1 \/ idx = Len(pgs) - 1 THEN PushPage(pgs, font) ELSE pgs
        next == DiscardPlaceholder(withNext[src + 2].blocks)
    IN [withNext EXCEPT ![src + 1].blocks = SubSeq(blocks, 1, Len(blocks) - 1),
                        ![src + 2].blocks = InsertFirst(lastElement, next)]

\* the pages after one migration step from the page at index idx (0-based)
MigrateLast(pgs, idx, font) ==
    LET blocks == pgs[idx + 1].blocks
        lastElement == blocks[Len(blocks)]
        withNext == IF idx = Len(pgs) - 1 THEN PushPage(pgs, font) ELSE pgs
        next == DiscardPlaceholder(withNext[idx + 2].blocks)
    IN [withNext EXCEPT ![idx + 1].blocks = SubSeq(blocks, 1, Len(blocks) - 1),
                        ![idx + 2].blocks = InsertFirst(lastElement, next)]

\* CursorInLast looking at the element before the one about to move
CursorInLastButOne(blocks) == cursor.blk = Len(blocks) - 1

\* cursorInLastElement: the caret is inside the element about to move
CursorInLast(blocks) == cursor.blk = Len(blocks)


----------------------------------------------------------------------------
\* The document: construction and the handlers.

\* getCurrentEditor(): the children of the editor of the page shown
ActiveBlocks == pages[currentPageIndex + 1].blocks

\* updatePageIndicator() for the values the handler leaves behind
UpdatePageIndicator(idx, n) ==
    /\ pageIndicator' = IndicatorText(idx, n)
    /\ prevDisabled' = (idx = 0)
    /\ nextDisabled' = (idx = n - 1)

\* history: the handler op has just run with argument arg
Did(op, arg) == lastOp' = [op |-> op, arg |-> arg, from |-> currentPageIndex]

\* the page of the markup that init() reads with querySelector('.page'): shown,
\* holding one empty line
MarkupPage == [blocks |-> <<Line(<<>>, DefaultFont)>>, active |-> TRUE, num |-> 1]

\* the page indicator and the page buttons as the markup declares them
MarkupIndicator == IndicatorText(0, 1)

MarkupPrevDisabled == TRUE

MarkupNextDisabled == TRUE

\* init(): the document is the one page of the markup
DocInit ==
    /\ pages = <<MarkupPage>>
    /\ currentPageIndex = 0
    /\ cursor = [blk |-> 1, off |-> 0]
    /\ stateFont = DefaultFont
    /\ pending = 0
    /\ running = 0
    /\ pageIndicator = MarkupIndicator
    /\ prevDisabled = MarkupPrevDisabled
    /\ nextDisabled = MarkupNextDisabled
    /\ chainSrc = -1
    /\ chainBlocks = <<>>
    /\ lastOp = [op |-> "init", arg |-> 0, from |-> 0]

\* input events and clicks are dispatched between frames, never inside one
Idle == running = 0

\* history: an edit other than a keystroke ends the chain being followed
ChainReset == chainSrc' = -1 /\ chainBlocks' = <<>>

ChainKept == UNCHANGED <<chainSrc, chainBlocks>>

\* a character typed at the caret: the browser inserts it and fires 'input',
\* handleInput queues one overflow check
TypeChar(c) ==
    /\ Idle
    /\ cursor # NoLine
    /\ LET b == ActiveBlocks[cursor.blk]
       IN pages' = [pages EXCEPT ![currentPageIndex + 1].blocks[cursor.blk].text =
                         InsertAt(b.text, cursor.off + 1, c)]
    /\ cursor' = [cursor EXCEPT !.off = cursor.off + 1]
    /\ pending' = pending + 1
    /\ chainSrc' = currentPageIndex
    /\ chainBlocks' = pages'[currentPageIndex + 1].blocks
    /\ UNCHANGED <<currentPageIndex, stateFont, running, pageIndicator, prevDisabled, nextDisabled>>
    /\ Did("type", 0)

\* Backspace inside a line (handleKeyDown does not intercept it): the browser
\* removes the character before the caret and fires 'input'
DeleteChar ==
    /\ Idle
    /\ cursor # NoLine
    /\ cursor.off > 0
    /\ pages' = [pages EXCEPT ![currentPageIndex + 1].blocks[cursor.blk].text =
                      RemoveAt(ActiveBlocks[cursor.blk].text, cursor.off)]
    /\ cursor' = [cursor EXCEPT !.off = cursor.off - 1]
    /\ pending' = pending + 1
    /\ ChainReset
    /\ UNCHANGED <<currentPageIndex, stateFont, running, pageIndicator, prevDisabled, nextDisabled>>
    /\ Did("delete", 0)

\* currentLine.lastChild can be null: the caret's line has no text. A line
\* without text has no child node when it was created by createNewPage,
\* clearAllPages or insertImageElement, and may hold an empty text node or a
\* <br> when its text was deleted or split off
CanBeChildless(blocks, c) == c # NoLine /\ blocks[c.blk].text = <<>>

\* the editor after createNewLine with the caret at c. With a childless
\* currentLine afterRange ends after the line itself, extractContents returns
\* a clone of the line, and the clone is appended to the new line: the
\* editor's div.line elements are then the line, the new line, and inside it
\* the clone, which carries the font of the line
NewLineBlocks(blocks, c, font, childless) ==
    IF c = NoLine THEN Append(blocks, Line(<<>>, font))
    ELSE IF childless
    THEN InsertAt(InsertAt(blocks, c.blk + 1, Line(<<>>, font)),
                  c.blk + 2, Line(<<>>, blocks[c.blk].font))
    ELSE LET t == blocks[c.blk].text
             kept == [blocks EXCEPT ![c.blk].text = SubSeq(t, 1, c.off)]
         IN InsertAt(kept, c.blk + 1, Line(SubSeq(t, c.off + 1, Len(t)), font))

\* Enter: handleKeyDown prevents the default and calls createNewLine
Enter(childless) ==
    /\ Idle
    /\ childless => CanBeChildless(ActiveBlocks, cursor)
    /\ pages' = [pages EXCEPT ![currentPageIndex + 1].blocks =
                      NewLineBlocks(ActiveBlocks, cursor, stateFont, childless)]
    /\ cursor' = IF cursor = NoLine THEN [blk |-> Len(ActiveBlocks) + 1, off |-> 0]
                 ELSE [blk |-> cursor.blk + 1, off |-> 0]
    /\ ChainReset
    /\ UNCHANGED <<currentPageIndex, stateFont, pending, running,
                   pageIndicator, prevDisabled, nextDisabled>>
    /\ Did("enter", IF childless THEN 1 ELSE 0)

\* isAtStart && currentLine.previousElementSibling?.classList.contains('line')
CanMerge(blocks, c) ==
    /\ c # NoLine
    /\ c.off = 0
    /\ c.blk > 1
    /\ blocks[c.blk - 1].kind = "line"

\* the editor after the line at the caret is merged into the line before it
MergeBlocks(blocks, c) ==
    RemoveAt([blocks EXCEPT ![c.blk - 1].text = @ \o blocks[c.blk].text], c.blk)

\* Backspace at the start of a line that follows a line
BackspaceMerge ==
    /\ Idle
    /\ CanMerge(ActiveBlocks, cursor)
    /\ pages' = [pages EXCEPT ![currentPageIndex + 1].blocks = MergeBlocks(ActiveBlocks, cursor)]
    /\ cursor' = [blk |-> cursor.blk - 1, off |-> Len(ActiveBlocks[cursor.blk - 1].text)]
    /\ ChainReset
    /\ UNCHANGED <<currentPageIndex, stateFont, pending, running,
                   pageIndicator, prevDisabled, nextDisabled>>
    /\ Did("merge", 0)

\* Backspace at the start of a line that follows no line: handleKeyDown leaves
\* the key to the browser, which stays inside the page's editing host; it does
\* nothing, or takes away the image before the caret and fires 'input'
BackspaceAtStart(removes) ==
    /\ Idle
    /\ cursor # NoLine
    /\ cursor.off = 0
    /\ ~CanMerge(ActiveBlocks, cursor)
    /\ IF removes /\ cursor.blk > 1
       THEN /\ pages' = [pages EXCEPT ![currentPageIndex + 1].blocks =
                              RemoveAt(ActiveBlocks, cursor.blk - 1)]
            /\ cursor' = [cursor EXCEPT !.blk = cursor.blk - 1]
            /\ pending' = pending + 1
       ELSE UNCHANGED <<pages, cursor, pending>>
    /\ ChainReset
    /\ UNCHANGED <<currentPageIndex, stateFont, running,
                   pageIndicator, prevDisabled, nextDisabled>>
    /\ Did("backspace", IF removes /\ cursor.blk > 1 THEN 1 ELSE 0)

\* the line insertImageElement inserts after: the caret's line, else the last line
ImageAnchor(blocks, c) == IF c # NoLine THEN c.blk ELSE LastLineIndex(blocks)

\* ImageBlocks without the line after the image
ImageBlocksBare(blocks, c, size, font) ==
    LET at == ImageAnchor(blocks, c)
    IN IF at # 0 THEN InsertAt(blocks, at + 1, Image(size)) ELSE Append(blocks, Image(size))

\* the editor after insertImageElement
ImageBlocks(blocks, c, size, font) ==
    LET at == ImageAnchor(blocks, c)
    IN IF at # 0
       THEN InsertAt(InsertAt(blocks, at + 1, Image(size)), at + 2, Line(<<>>, font))
       ELSE blocks \o <<Image(size), Line(<<>>, font)>>

\* an image dropped on the page, once it has loaded
InsertImage(size) ==
    /\ Idle
    /\ pages' = [pages EXCEPT ![currentPageIndex + 1].blocks =
                      ImageBlocks(ActiveBlocks, cursor, size, stateFont)]
    /\ cursor' = LET at == ImageAnchor(ActiveBlocks, cursor)
                 IN IF at # 0 THEN [blk |-> at + 2, off |-> 0] ELSE cursor
    /\ ChainReset
    /\ UNCHANGED <<currentPageIndex, stateFont, pending, running,
                   pageIndicator, prevDisabled, nextDisabled>>
    /\ Did("image", 0)

\* a click into a line of the visible page places the caret
PlaceCursor(b, o) ==
    /\ Idle
    /\ b \in 1..Len(ActiveBlocks)
    /\ ActiveBlocks[b].kind = "line"
    /\ o \in 0..Len(ActiveBlocks[b].text)
    /\ cursor' = [blk |-> b, off |-> o]
    /\ ChainReset
    /\ UNCHANGED <<pages, currentPageIndex, stateFont, pending, running,
                   pageIndicator, prevDisabled, nextDisabled>>
    /\ Did("place", 0)

\* the font select with a collapsed selection: setFont and the caret's line
SetFont(f) ==
    /\ Idle
    /\ stateFont' = f
    /\ pages' = IF cursor # NoLine
                THEN [pages EXCEPT ![currentPageIndex + 1].blocks[cursor.blk].font = f]
                ELSE pages
    /\ ChainReset
    /\ UNCHANGED <<currentPageIndex, cursor, pending, running,
                   pageIndicator, prevDisabled, nextDisabled>>
    /\ Did("font", 0)

\* NavigateToPage with the index clamped into the range instead of ignored
NavigateToPageClamped(index) ==
    LET to == IF index < 0 THEN 0 ELSE IF index >= Len(pages) THEN Len(pages) - 1 ELSE index
    IN /\ pages' = NavigatePages(pages, currentPageIndex, to)
       /\ currentPageIndex' = to
       /\ UpdatePageIndicator(to, Len(pages))
       /\ cursor' = FocusCursor(pages[to + 1].blocks)

\* navigateToPage(index)
NavigateToPage(index) ==
    IF index < 0 \/ index >= Len(pages)
    THEN UNCHANGED <<pages, currentPageIndex, cursor, pageIndicator, prevDisabled, nextDisabled>>
    ELSE /\ pages' = NavigatePages(pages, currentPageIndex, index)
         /\ currentPageIndex' = index
         /\ UpdatePageIndicator(index, Len(pages))
         /\ cursor' = FocusCursor(pages[index + 1].blocks)

\* the page buttons (and any other caller of navigateToPage)
Navigate(index) ==
    /\ Idle
    /\ NavigateToPage(index)
    /\ ChainReset
    /\ UNCHANGED <<stateFont, pending, running>>
    /\ Did("nav", index)

\* ClearedPage without the new line appended to the emptied editor
ClearedPageBlank(first, font) == [first EXCEPT !.blocks = <<>>, !.active = TRUE]

\* ClearedPage with the new line in the font the application starts with
ClearedPageDefault(first, font) ==
    [first EXCEPT !.blocks = <<Line(<<>>, DefaultFont)>>, !.active = TRUE]

\* the first page as clearAllPages leaves it
ClearedPage(first, font) == [first EXCEPT !.blocks = <<Line(<<>>, font)>>, !.active = TRUE]

\* the new-document button
ClearAllPages ==
    /\ Idle
    /\ pages' = <<ClearedPage(pages[1], stateFont)>>
    /\ currentPageIndex' = 0
    /\ UpdatePageIndicator(0, 1)
    /\ cursor' = [blk |-> 1, off |-> 0]
    /\ ChainReset
    /\ UNCHANGED <<stateFont, pending, running>>
    /\ Did("clear", 0)

\* a frame starts: the callbacks queued so far are the ones it runs
Frame ==
    /\ running = 0
    /\ pending > 0
    /\ running' = pending
    /\ pending' = 0
    /\ ChainKept
    /\ UNCHANGED <<pages, currentPageIndex, cursor, stateFont,
                   pageIndicator, prevDisabled, nextDisabled>>
    /\ Did("frame", 0)

\* one queued callback runs checkPageOverflow()
RunCheck ==
    /\ running > 0
    /\ running' = running - 1
    /\ IF ShouldMigrate(ActiveBlocks)
       THEN LET moved == MigrateLast(pages, currentPageIndex, stateFont)
                follow == CursorInLast(ActiveBlocks)
                dest == currentPageIndex + 1
            IN /\ pending' = pending + 1
               /\ IF follow
                  THEN /\ pages' = NavigatePages(moved, currentPageIndex, dest)
                       /\ currentPageIndex' = dest
                       /\ cursor' = [blk |-> 1, off |-> Len(moved[dest + 1].blocks[1].text)]
                       /\ UpdatePageIndicator(dest, Len(moved))
                  ELSE /\ pages' = moved
                       /\ UNCHANGED <<currentPageIndex, cursor>>
                       /\ IF Len(moved) # Len(pages)
                          THEN UpdatePageIndicator(currentPageIndex, Len(moved))
                          ELSE UNCHANGED <<pageIndicator, prevDisabled, nextDisabled>>
       ELSE UNCHANGED <<pages, currentPageIndex, cursor, pending,
                        pageIndicator, prevDisabled, nextDisabled>>
    /\ ChainKept
    /\ UNCHANGED stateFont
    /\ Did("check", IF ShouldMigrate(ActiveBlocks) THEN 1 ELSE 0)

----------------------------------------------------------------------------
\* Documents in the middle of a session.

\* the contents a page can have come to: empty, typed into in either font,
\* over the budget, an image alone (its line migrated away), a second image
\* dropped on such a page, an image between lines, a line of whitespace, a
\* page still over the budget once its last line is gone
StepPageContents ==
    { <<Line(<<>>, DefaultFont)>>,
      <<Line(<<"a">>, "adler")>>,
      <<Line(<<"a", "a">>, DefaultFont), Line(<<"a">>, "adler")>>,
      <<Image(<<1280, 600>>)>>,
      <<Image(<<1280, 600>>), Image(<<200, 150>>), Line(<<>>, DefaultFont)>>,
      <<Line(<<"a">>, DefaultFont), Image(<<1280, 600>>), Line(<<>>, DefaultFont)>>,
      <<Line(<<" ">>, DefaultFont)>>,
      <<Line(<<"a", "a">>, DefaultFont), Image(<<1280, 600>>), Line(<<"a">>, DefaultFont)>> }

\* the first block of the first page is the line of the markup: a migration
\* takes the last of at least two blocks and a merge a line after a line
StepDocs ==
    {d \in UNION {[1..n -> StepPageContents] : n \in 1..MaxStepPages} :
        d[1][1].kind = "line"}

\* the places the caret can be on a page: in a line, or in no line when the
\* page has none or had none when an image was appended to it
CaretPlaces(blocks) ==
    {[blk |-> b, off |-> o] : b \in 1..Len(blocks), o \in 0..MaxText}
        \cup (IF blocks[1].kind = "image" THEN {NoLine} ELSE {})

ValidCaret(blocks, c) ==
    \/ c = NoLine
    \/ /\ c # NoLine
       /\ c.blk \in 1..Len(blocks)
       /\ blocks[c.blk].kind = "line"
       /\ c.off \in 0..Len(blocks[c.blk].text)

\* a document some way into a session: any page shown, the caret anywhere
\* on it, either font selected, no overflow check queued
StepDocInit ==
    /\ \E d \in StepDocs, idx \in 0..(MaxStepPages - 1) :
          /\ idx < Len(d)
          /\ pages = [k \in 1..Len(d) |-> [blocks |-> d[k], active |-> (k = idx + 1), num |-> k]]
          /\ currentPageIndex = idx
    /\ cursor \in CaretPlaces(ActiveBlocks)
    /\ ValidCaret(ActiveBlocks, cursor)
    /\ stateFont \in Fonts
    /\ pending = 0
    /\ running = 0
    /\ pageIndicator = IndicatorText(currentPageIndex, Len(pages))
    /\ prevDisabled = (currentPageIndex = 0)
    /\ nextDisabled = (currentPageIndex = Len(pages) - 1)
    /\ chainSrc = -1
    /\ chainBlocks = <<>>
    /\ lastOp = [op |-> "init", arg |-> 0, from |-> 0]

\* the contents of a page when the edits stop: within the budget, a single
\* line over the budget, pages one or two migrations over it, ending in a
\* block that is over the budget alone, images followed by an empty line
SettlePageContents ==
    { <<Line(<<>>, DefaultFont)>>,
      <<Line(<<"a">>, DefaultFont)>>,
      <<Line(<<"a", "a", "a">>, DefaultFont)>>,
      <<Line(<<"a", "a">>, DefaultFont), Line(<<"a">>, DefaultFont)>>,
      <<Line(<<"a", "a">>, DefaultFont), Line(<<"a">>, DefaultFont), Line(<<"a">>, DefaultFont)>>,
      <<Line(<<"a">>, DefaultFont), Line(<<"a", "a", "a">>, DefaultFont)>>,
      <<Image(<<1280, 600>>), Image(<<200, 150>>), Line(<<>>, DefaultFont)>> }

SettleDocs ==
    {d \in UNION {[1..n -> SettlePageContents] : n \in 1..MaxStepPages} :
        d[1][1].kind = "line"}

\* the edits have stopped: any page shown, the caret anywhere on it, and the
\* overflow checks they queued still waiting for the next frame
SettleDocInit ==
    /\ \E d \in SettleDocs, idx \in 0..(MaxStepPages - 1) :
          /\ idx < Len(d)
          /\ pages = [k \in 1..Len(d) |-> [blocks |-> d[k], active |-> (k = idx + 1), num |-> k]]
          /\ currentPageIndex = idx
    /\ cursor \in CaretPlaces(ActiveBlocks)
    /\ ValidCaret(ActiveBlocks, cursor)
    /\ stateFont = DefaultFont
    /\ pending \in 1..(MaxPending + 1)
    /\ running = 0
    /\ pageIndicator = IndicatorText(currentPageIndex, Len(pages))
    /\ prevDisabled = (currentPageIndex = 0)
    /\ nextDisabled = (currentPageIndex = Len(pages) - 1)
    /\ chainSrc = -1
    /\ chainBlocks = <<>>
    /\ lastOp = [op |-> "init", arg |-> 0, from |-> 0]

----------------------------------------------------------------------------
\* Text layout engine: wrapText(ctx, text, maxWidth).

WrapChars == {"a", "W", " "}
Metrics == {"mono", "prop", "kern"}

\* advance width of one character in a font: "mono" gives every character
\* one unit, "prop" and "kern" make W three units wide
CharWidth(metric, c) == IF metric # "mono" /\ c = "W" THEN 3 ELSE 1

RECURSIVE SumWidths(_, _)
SumWidths(metric, s) ==
    IF s = <<>> THEN 0 ELSE CharWidth(metric, Head(s)) + SumWidths(metric, Tail(s))

\* pairs "aW" that the "kern" font draws one unit closer together
KernPairs(s) == Cardinality({i \in 1..(Len(s) - 1) : s[i] = "a" /\ s[i + 1] = "W"})

\* ctx.measureText(s).width
MeasureText(metric, s) ==
    IF metric = "kern" THEN SumWidths(metric, s) - KernPairs(s) ELSE SumWidths(metric, s)

RECURSIVE SplitAcc(_, _, _)
SplitAcc(s, cur, out) ==
    IF s = <<>> THEN Append(out, cur)
    ELSE IF Head(s) = " " THEN SplitAcc(Tail(s), <<>>, Append(out, cur))
    ELSE SplitAcc(Tail(s), Append(cur, Head(s)), out)

\* text.split(' '): consecutive, leading and trailing spaces give empty words
SplitSpaces(text) == SplitAcc(text, <<>>, <<>>)

\* the test that sends a word to the character-by-character branch
IsLongWord(metric, word, maxWidth) == MeasureText(metric, word) > maxWidth

\* the test that closes a chunk before the character that does not fit
ChunkFull(metric, testChunk, chunk, maxWidth) ==
    MeasureText(metric, testChunk) > maxWidth /\ chunk # <<>>

RECURSIVE BreakWordDrop(_, _, _, _, _)
\* BreakWord starting the new chunk empty, so the character that did not fit is lost
BreakWordDrop(metric, word, maxWidth, chunk, lines) ==
    IF word = <<>> THEN [lines |-> lines, currentLine |-> chunk]
    ELSE LET testChunk == Append(chunk, Head(word))
         IN IF ChunkFull(metric, testChunk, chunk, maxWidth)
            THEN BreakWordDrop(metric, Tail(word), maxWidth, <<>>, Append(lines, chunk))
            ELSE BreakWordDrop(metric, Tail(word), maxWidth, testChunk, lines)

RECURSIVE BreakWord(_, _, _, _, _)
\* the for loop over the characters of a long word; the result is
\* [lines, currentLine] with currentLine the last chunk
BreakWord(metric, word, maxWidth, chunk, lines) ==
    IF word = <<>> THEN [lines |-> lines, currentLine |-> chunk]
    ELSE LET testChunk == Append(chunk, Head(word))
         IN IF ChunkFull(metric, testChunk, chunk, maxWidth)
            THEN BreakWord(metric, Tail(word), maxWidth, <<Head(word)>>, Append(lines, chunk))
            ELSE BreakWord(metric, Tail(word), maxWidth, testChunk, lines)

\* LineFull flushing already when the word fills the line exactly
LineFullEarly(metric, testLine, currentLine, maxWidth) ==
    MeasureText(metric, testLine) >= maxWidth /\ currentLine # <<>>

\* LineFull with the comparison one unit late
LineFullLate(metric, testLine, currentLine, maxWidth) ==
    MeasureText(metric, testLine) > maxWidth + 1 /\ currentLine # <<>>

\* the test that flushes the current line before a word
LineFull(metric, testLine, currentLine, maxWidth) ==
    MeasureText(metric, testLine) > maxWidth /\ currentLine # <<>>

\* the body of words.forEach for one word, on st = [lines, currentLine]
WrapWord(metric, st, word, maxWidth) ==
    IF IsLongWord(metric, word, maxWidth)
    THEN BreakWord(metric, word, maxWidth, <<>>,
                   IF st.currentLine # <<>> THEN Append(st.lines, st.currentLine) ELSE st.lines)
    ELSE LET testLine == IF st.currentLine # <<>> THEN st.currentLine \o <<" ">> \o word
                         ELSE word
         IN IF LineFull(metric, testLine, st.currentLine, maxWidth)
            THEN [lines |-> Append(st.lines, st.currentLine), currentLine |-> word]
            ELSE [lines |-> st.lines, currentLine |-> testLine]

RECURSIVE WrapWords(_, _, _, _)
WrapWords(metric, st, words, maxWidth) ==
    IF words = <<>> THEN st
    ELSE WrapWords(metric, WrapWord(metric, st, Head(words), maxWidth), Tail(words), maxWidth)

\* wrapText(ctx, text, maxWidth) with ctx.font = metric
WrapText(metric, text, maxWidth) ==
    IF text = <<>> THEN <<>>
    ELSE LET st == WrapWords(metric, [lines |-> <<>>, currentLine |-> <<>>],
                             SplitSpaces(text), maxWidth)
         IN IF st.currentLine # <<>> THEN Append(st.lines, st.currentLine) ELSE st.lines

\* all texts of at most n characters
TextsUpTo(n) == UNION {[1..k -> WrapChars] : k \in 0..n}

WrapIdle ==
    /\ wText = <<>>
    /\ wMaxWidth = 1
    /\ wMetric = "mono"
    /\ wLines = <<>>
    /\ wDone = FALSE

WrapInit ==
    /\ wText \in TextsUpTo(MaxWrapLen)
    /\ wMaxWidth \in 1..MaxWrapWidth
    /\ wMetric \in Metrics
    /\ wLines = <<>>
    /\ wDone = FALSE

\* a caller lays the text out
CallWrapText ==
    /\ ~wDone
    /\ wLines' = WrapText(wMetric, wText, wMaxWidth)
    /\ wDone' = TRUE
    /\ UNCHANGED <<wText, wMaxWidth, wMetric>>

----------------------------------------------------------------------------
\* Documents handed to the exports.

\* the text of the button insertImageElement puts next to every image
FilterGlyph == "newspaper"

\* the contents an exported page can have
ExportPageContents ==
    { <<Line(<<>>, DefaultFont)>>,
      <<Line(<<" ">>, DefaultFont)>>,
      <<Line(<<"A">>, DefaultFont)>>,
      <<Line(<<"B">>, DefaultFont)>>,
      <<Image(<<200, 150>>)>>,
      <<Line(<<"A", " ">>, DefaultFont), Image(<<200, 150>>), Line(<<>>, DefaultFont)>> }

ExportDocs ==
    UNION {[1..n -> ExportPageContents] : n \in 1..MaxExportPages}

\* a document as it stands on its first page, no overflow check queued
ExportDocInit ==
    /\ \E d \in ExportDocs :
          pages = [k \in 1..Len(d) |-> [blocks |-> d[k], active |-> (k = 1), num |-> k]]
    /\ currentPageIndex = 0
    /\ cursor = FocusCursor(pages[1].blocks)
    /\ stateFont = DefaultFont
    /\ pending = 0
    /\ running = 0
    /\ pageIndicator = IndicatorText(0, Len(pages))
    /\ prevDisabled = TRUE
    /\ nextDisabled = (Len(pages) = 1)
    /\ chainSrc = -1
    /\ chainBlocks = <<>>
    /\ lastOp = [op |-> "init", arg |-> 0, from |-> 0]

----------------------------------------------------------------------------
\* Plain-text export: getEditorText and saveText.

RECURSIVE PageLinesText(_)
\* lines.forEach(line => text += line.textContent + '\n') over the div.line of a page
PageLinesText(blocks) ==
    IF blocks = <<>> THEN <<>>
    ELSE (IF Head(blocks).kind = "line" THEN Append(Head(blocks).text, "\n") ELSE <<>>)
         \o PageLinesText(Tail(blocks))

\* '\n--- Seite ' + (pageIndex + 2) + ' ---\n\n'
PageBreakMarker(pageIndex) ==
    <<"\n", "-", "-", "-", " ", "S", "e", "i", "t", "e", " ">> \o Digits(pageIndex + 2)
        \o <<" ", "-", "-", "-", "\n", "\n">>

\* HasPageBreak with the marker after the last page too
HasPageBreakAlways(pageIndex, n) == pageIndex < n

\* whether the marker follows the page at pageIndex
HasPageBreak(pageIndex, n) == pageIndex < n - 1

RECURSIVE EditorTextFrom(_, _)
\* pages.forEach((page, pageIndex) => ...) from pageIndex on
EditorTextFrom(pgs, pageIndex) ==
    IF pageIndex >= Len(pgs) THEN <<>>
    ELSE PageLinesText(pgs[pageIndex + 1].blocks)
         \o (IF HasPageBreak(pageIndex, Len(pgs)) THEN PageBreakMarker(pageIndex) ELSE <<>>)
         \o EditorTextFrom(pgs, pageIndex + 1)

RECURSIVE TrimEnd(_)
\* String.prototype.trimEnd()
TrimEnd(s) ==
    IF s # <<>> /\ s[Len(s)] \in Whitespace THEN TrimEnd(SubSeq(s, 1, Len(s) - 1)) ELSE s

\* getEditorText()
GetEditorText(pgs) == TrimEnd(EditorTextFrom(pgs, 0))

TxtIdle ==
    /\ txtPc = "idle"
    /\ txtText = <<>>
    /\ txtLog = <<>>

\* where saveText continues when the dialog resolves with no path
TxtAfterCancel == "done"

\* where saveText continues when an await inside its try block throws
TxtAfterThrow == "fallback"

\* the save button: saveText up to its first await
SaveTextStart ==
    /\ txtPc = "idle"
    /\ LET text == GetEditorText(pages)
       IN /\ txtText' = text
          /\ txtPc' = IF IsBlank(text) THEN "done" ELSE "dialog"
    /\ UNCHANGED txtLog

\* window.__TAURI__.dialog.save(...) settles
TxtDialog(res) ==
    /\ txtPc = "dialog"
    /\ txtLog' = Append(txtLog, [ev |-> "save", res |-> res, data |-> <<>>])
    /\ txtPc' = CASE res = "path" -> "write"
                  [] res = "cancel" -> TxtAfterCancel
                  [] res = "throw" -> TxtAfterThrow
    /\ UNCHANGED txtText

\* window.__TAURI__.fs.writeTextFile(filePath, text) settles
TxtWrite(res) ==
    /\ txtPc = "write"
    /\ txtLog' = Append(txtLog, [ev |-> "write", res |-> res, data |-> txtText])
    /\ txtPc' = IF res = "ok" THEN "done" ELSE TxtAfterThrow
    /\ UNCHANGED txtText

\* the catch block: the text is offered as a browser download
TxtFallback ==
    /\ txtPc = "fallback"
    /\ txtLog' = Append(txtLog, [ev |-> "download", res |-> "ok", data |-> txtText])
    /\ txtPc' = "done"
    /\ UNCHANGED txtText

TxtNext ==
    \/ SaveTextStart /\ UNCHANGED <<docVars, wrapVars, pngVars, renderVars>>
    \/ (\E res \in {"path", "cancel", "throw"} : TxtDialog(res)) /\ UNCHANGED <<docVars, wrapVars, pngVars, renderVars>>
    \/ (\E res \in {"ok", "throw"} : TxtWrite(res)) /\ UNCHANGED <<docVars, wrapVars, pngVars, renderVars>>
    \/ TxtFallback /\ UNCHANGED <<docVars, wrapVars, pngVars, renderVars>>

----------------------------------------------------------------------------
\* Raster export: savePNG.

RECURSIVE EditorTextContent(_)
\* editor.textContent: the text of every descendant, the image buttons included
EditorTextContent(blocks) ==
    IF blocks = <<>> THEN <<>>
    ELSE (IF Head(blocks).kind = "line" THEN Head(blocks).text ELSE <<FilterGlyph>>)
         \o EditorTextContent(Tail(blocks))

ImageCount(blocks) == Cardinality({i \in 1..Len(blocks) : blocks[i].kind = "image"})

\* HasContent without the trim: any text, blank or not, counts
HasContentUntrimmed(blocks) ==
    EditorTextContent(blocks) # <<>> \/ ImageCount(blocks) > 0

\* the filter predicate of pagesWithContent
HasContent(blocks) ==
    ~IsBlank(EditorTextContent(blocks)) \/ ImageCount(blocks) > 0

RECURSIVE FilterPages(_, _)
\* pages.filter(...), as the 0-based indices of the pages kept, from index k on
FilterPages(pgs, k) ==
    IF k >= Len(pgs) THEN <<>>
    ELSE (IF HasContent(pgs[k + 1].blocks) THEN <<k>> ELSE <<>>) \o FilterPages(pgs, k + 1)

\* PngFileName without the numbered names
PngFileNameSingle(count, i) == <<"dokument", ".png">>

\* a.download and the name written to: 'dokument.png' or `dokument_seite_${i + 1}.png`
PngFileName(count, i) ==
    IF count = 1 THEN <<"dokument", ".png">>
    ELSE <<"dokument_seite_">> \o Digits(i + 1) \o <<".png">>

\* SeiteFileName numbering from 0
SeiteFileNameZero(i) == <<"dokument_seite_">> \o Digits(i) \o <<".png">>

\* the name the directory branch writes to
SeiteFileName(i) == <<"dokument_seite_">> \o Digits(i + 1) \o <<".png">>

PngEvent(ev, res, page, file) == [ev |-> ev, res |-> res, page |-> page, file |-> file]

PngIdle ==
    /\ pngPc = "idle"
    /\ pagesWithContent = <<>>
    /\ pngI = 0
    /\ pngLog = <<>>

\* where savePNG starts once the pages are filtered
PngEntry(count) ==
    IF count = 0 THEN "done" ELSE IF count = 1 THEN "s_render" ELSE "m_dialog"

\* where savePNG continues when a dialog resolves with no path
PngAfterCancel == "done"

\* PngAfterThrow with a catch block that only logs
PngAfterThrowSwallowed == "done"

\* where savePNG continues when an await inside its try block throws
PngAfterThrow == "f_render"

\* ExportCount counting the pages that have content now
ExportCountLive == Len(FilterPages(pages, 0))

\* pagesWithContent.length, the bound of the loops
ExportCount == Len(pagesWithContent)

\* the loop variable after a write of the directory branch
NextIndex(i) == i + 1

\* the export button: savePNG up to its first await
SavePNGStart ==
    /\ pngPc = "idle"
    /\ LET kept == FilterPages(pages, 0)
       IN /\ pagesWithContent' = kept
          /\ pngPc' = PngEntry(Len(kept))
    /\ UNCHANGED <<pngI, pngLog>>

\* single page: createDocumentCanvas(editor) and canvas.toBlob
PngSingleRender ==
    /\ pngPc = "s_render"
    /\ pngLog' = Append(pngLog, PngEvent("render", "ok", pagesWithContent[1], <<>>))
    /\ pngPc' = "s_dialog"
    /\ UNCHANGED <<pagesWithContent, pngI>>

\* single page: window.__TAURI__.dialog.save(...) settles
PngSaveDialog(res) ==
    /\ pngPc = "s_dialog"
    /\ pngLog' = Append(pngLog, PngEvent("save", res, -1, <<>>))
    /\ pngPc' = CASE res = "path" -> "s_write"
                  [] res = "cancel" -> PngAfterCancel
                  [] res = "throw" -> PngAfterThrow
    /\ pngI' = 0
    /\ UNCHANGED pagesWithContent

\* single page: window.__TAURI__.fs.writeFile(filePath, uint8Array) settles
PngSingleWrite(res) ==
    /\ pngPc = "s_write"
    /\ pngLog' = Append(pngLog, PngEvent("write", res, pagesWithContent[1], <<"dokument", ".png">>))
    /\ pngPc' = IF res = "ok" THEN "done" ELSE PngAfterThrow
    /\ pngI' = 0
    /\ UNCHANGED pagesWithContent

\* several pages: window.__TAURI__.dialog.open({directory: true}) settles
PngOpenDialog(res) ==
    /\ pngPc = "m_dialog"
    /\ pngLog' = Append(pngLog, PngEvent("open", res, -1, <<>>))
    /\ pngPc' = CASE res = "path" -> "m_render"
                  [] res = "cancel" -> PngAfterCancel
                  [] res = "throw" -> PngAfterThrow
    /\ pngI' = 0
    /\ UNCHANGED pagesWithContent

\* several pages: createDocumentCanvas and toBlob of pagesWithContent[i]
PngMultiRender ==
    /\ pngPc = "m_render"
    /\ pngLog' = Append(pngLog, PngEvent("render", "ok", pagesWithContent[pngI + 1], <<>>))
    /\ pngPc' = "m_write"
    /\ UNCHANGED <<pagesWithContent, pngI>>

\* several pages: writeFile of pagesWithContent[i] settles
PngMultiWrite(res) ==
    /\ pngPc = "m_write"
    /\ pngLog' = Append(pngLog,
                        PngEvent("write", res, pagesWithContent[pngI + 1], SeiteFileName(pngI)))
    /\ IF res = "ok"
       THEN /\ pngI' = NextIndex(pngI)
            /\ pngPc' = IF NextIndex(pngI) < ExportCount THEN "m_render" ELSE "done"
       ELSE /\ pngI' = 0
            /\ pngPc' = PngAfterThrow
    /\ UNCHANGED pagesWithContent

\* the catch block: createDocumentCanvas of pagesWithContent[i]
PngFallbackRender ==
    /\ pngPc = "f_render"
    /\ pngLog' = Append(pngLog, PngEvent("render", "ok", pagesWithContent[pngI + 1], <<>>))
    /\ pngPc' = "f_download"
    /\ UNCHANGED <<pagesWithContent, pngI>>

\* the catch block: the toBlob callback clicks the download link
PngFallbackDownload ==
    /\ pngPc = "f_download"
    /\ pngLog' = Append(pngLog, PngEvent("download", "ok", pagesWithContent[pngI + 1],
                                         PngFileName(ExportCount, pngI)))
    /\ pngPc' = IF pngI < ExportCount - 1 THEN "f_delay" ELSE "done"
    /\ UNCHANGED <<pagesWithContent, pngI>>

\* the catch block: the 500 ms timer between two downloads fires
PngFallbackDelay ==
    /\ pngPc = "f_delay"
    /\ pngI' = pngI + 1
    /\ pngPc' = "f_render"
    /\ UNCHANGED <<pagesWithContent, pngLog>>

PngNext ==
    \/ SavePNGStart /\ UNCHANGED <<docVars, wrapVars, txtVars, renderVars>>
    \/ PngSingleRender /\ UNCHANGED <<docVars, wrapVars, txtVars, renderVars>>
    \/ (\E res \in {"path", "cancel", "throw"} : PngSaveDialog(res)) /\ UNCHANGED <<docVars, wrapVars, txtVars, renderVars>>
    \/ (\E res \in {"ok", "throw"} : PngSingleWrite(res)) /\ UNCHANGED <<docVars, wrapVars, txtVars, renderVars>>
    \/ (\E res \in {"path", "cancel", "throw"} : PngOpenDialog(res)) /\ UNCHANGED <<docVars, wrapVars, txtVars, renderVars>>
    \/ PngMultiRender /\ UNCHANGED <<docVars, wrapVars, txtVars, renderVars>>
    \/ (\E res \in {"ok", "throw"} : PngMultiWrite(res)) /\ UNCHANGED <<docVars, wrapVars, txtVars, renderVars>>
    \/ PngFallbackRender /\ UNCHANGED <<docVars, wrapVars, txtVars, renderVars>>
    \/ PngFallbackDownload /\ UNCHANGED <<docVars, wrapVars, txtVars, renderVars>>
    \/ PngFallbackDelay /\ UNCHANGED <<docVars, wrapVars, txtVars, renderVars>>

----------------------------------------------------------------------------
\* Export renderer: createDocumentCanvas(editor).

\* Program constants of the renderer.
PageWidth == 800
MarginX == 60
MarginTop == 80
MarginBottom == 80
LineHeight == 32
ImgMaxHeight == 300
ImageMargin == 24
FrameStyleCount == 5

\* const maxWidth = pageWidth - marginX * 2, in pixels
MaxWidthPx == PageWidth - MarginX * 2

\* const imgMaxWidth = maxWidth - 40
ImgMaxWidth == MaxWidthPx - 40

\* Image sizes are scaled by a quotient: lengths are fractions n/d, kept in
\* lowest terms (the source computes them in floating point).
RECURSIVE GCD(_, _)
GCD(a, b) == IF b = 0 THEN a ELSE GCD(b, a % b)

Rat(n, d) == LET g == GCD(n, d) IN [n |-> n \div g, d |-> d \div g]

Whole(n) == [n |-> n, d |-> 1]

RatAdd(a, b) == Rat(a.n * b.d + b.n * a.d, a.d * b.d)

RatSub(a, b) == Rat(a.n * b.d - b.n * a.d, a.d * b.d)

RatMul(a, b) == Rat(a.n * b.n, a.d * b.d)

RatLeq(a, b) == a.n * b.d <= b.n * a.d

RatMin(a, b) == IF RatLeq(a, b) THEN a ELSE b

\* ImageScale without the 1: a small image is enlarged to the limits
ImageScaleUp(w, h) == RatMin(Rat(ImgMaxWidth, w), Rat(ImgMaxHeight, h))

\* Math.min(imgMaxWidth / imgWidth, imgMaxHeight / imgHeight, 1)
ImageScale(w, h) == RatMin(RatMin(Rat(ImgMaxWidth, w), Rat(ImgMaxHeight, h)), Whole(1))

\* fontMap[fontKey] || fontMap['special-elite']
FontInfo(fontKey) == IF fontKey \in Fonts THEN fontKey ELSE DefaultFont

\* the measure function tempCtx has once its font is set to fontInfo
FontMetric(fontInfo) == IF fontInfo = "adler" THEN "prop" ELSE "mono"

RenderItem(type, text, font, width, height) ==
    [type |-> type, text |-> text, font |-> font, width |-> width, height |-> height]

\* MeasureChild with the blank test !text in place of !text.trim(): a line of
\* spaces goes to wrapText
MeasureChildUntrimmed(child) ==
    IF child.kind = "image"
    THEN LET scale == ImageScale(child.img[1], child.img[2])
             imgWidth == RatMul(Whole(child.img[1]), scale)
             imgHeight == RatMul(Whole(child.img[2]), scale)
         IN [data |-> <<RenderItem("image", <<>>, "none", imgWidth, imgHeight)>>,
             height |-> RatAdd(imgHeight, Whole(ImageMargin))]
    ELSE LET fontInfo == FontInfo(child.font)
         IN IF child.text = <<>>
            THEN [data |-> <<RenderItem("empty", <<>>, "none", Whole(0), Whole(0))>>,
                  height |-> Whole(LineHeight)]
            ELSE LET wrappedLines == WrapText(FontMetric(fontInfo), child.text, PageTextWidth)
                 IN [data |-> [i \in 1..Len(wrappedLines) |->
                                  RenderItem("text", wrappedLines[i], fontInfo, Whole(0), Whole(0))],
                     height |-> Whole(LineHeight * Len(wrappedLines)
                                      + (IF Len(wrappedLines) = 0 THEN LineHeight ELSE 0))]

\* the renderData entries of one child and what it adds to totalContentHeight
MeasureChild(child) ==
    IF child.kind = "image"
    THEN LET scale == ImageScale(child.img[1], child.img[2])
             imgWidth == RatMul(Whole(child.img[1]), scale)
             imgHeight == RatMul(Whole(child.img[2]), scale)
         IN [data |-> <<RenderItem("image", <<>>, "none", imgWidth, imgHeight)>>,
             height |-> RatAdd(imgHeight, Whole(ImageMargin))]
    ELSE LET fontInfo == FontInfo(child.font)
         IN IF IsBlank(child.text)
            THEN [data |-> <<RenderItem("empty", <<>>, "none", Whole(0), Whole(0))>>,
                  height |-> Whole(LineHeight)]
            ELSE LET wrappedLines == WrapText(FontMetric(fontInfo), child.text, PageTextWidth)
                 IN [data |-> [i \in 1..Len(wrappedLines) |->
                                  RenderItem("text", wrappedLines[i], fontInfo, Whole(0), Whole(0))],
                     height |-> Whole(LineHeight * Len(wrappedLines)
                                      + (IF Len(wrappedLines) = 0 THEN LineHeight ELSE 0))]

RECURSIVE FirstPass(_, _, _)
\* children.forEach of the first pass: [data, total] after the children left
FirstPass(children, data, total) ==
    IF children = <<>> THEN [data |-> data, total |-> total]
    ELSE LET m == MeasureChild(Head(children))
         IN FirstPass(Tail(children), data \o m.data, RatAdd(total, m.height))

\* const pageHeight = marginTop + contentHeight + marginBottom
CanvasHeight(contentHeight) == RatAdd(Whole(MarginTop + MarginBottom), contentHeight)

\* what one item of renderData adds to yPosition
Advance(item) ==
    IF item.type = "image" THEN RatAdd(item.height, Whole(ImageMargin)) ELSE Whole(LineHeight)

\* DrawnAt pushed down by the frame that was drawn
DrawnAtFramed(item, yPosition) ==
    IF item.type = "image"
    THEN RatAdd(RatSub(yPosition, Whole(LineHeight)), Whole(12 + rStyles[1]))
    ELSE RatAdd(yPosition, Whole(rStyles[1]))

\* the y coordinate an item is drawn at
DrawnAt(item, yPosition) ==
    IF item.type = "image" THEN RatAdd(RatSub(yPosition, Whole(LineHeight)), Whole(12)) ELSE yPosition

RECURSIVE SecondPass(_, _, _)
\* renderData.forEach of the second pass: [offsets, y] after the items left
SecondPass(data, offsets, yPosition) ==
    IF data = <<>> THEN [offsets |-> offsets, y |-> yPosition]
    ELSE SecondPass(Tail(data), Append(offsets, DrawnAt(Head(data), yPosition)),
                    RatAdd(yPosition, Advance(Head(data))))

\* the children a rendered page can have
RenderBlocks ==
    { Line(<<>>, DefaultFont),
      Line(<<" ">>, DefaultFont),
      Line(<<" ", "a">>, DefaultFont),
      Line(<<"a", " ", "W", "a">>, "adler"),
      Image(<<200, 150>>),
      Image(<<400, 600>>),
      Image(<<1000, 333>>) }

\* the grain patterns Math.random() can give the paper texture
Grains == {"fine", "coarse"}

RenderPages == UNION {[1..n -> RenderBlocks] : n \in 1..MaxRenderBlocks}

RenderIdle ==
    /\ rPc = "idle"
    /\ rPage = <<>>
    /\ rData = <<>>
    /\ rPageHeight = Whole(0)
    /\ rNoise = "none"
    /\ rStyles = <<>>
    /\ rOffsets = <<>>
    /\ rY = Whole(0)
    /\ rendered = <<>>

\* createDocumentCanvas is about to be called on a page
RenderInit ==
    /\ rPc = "idle"
    /\ rPage \in RenderPages
    /\ rData = <<>>
    /\ rPageHeight = Whole(0)
    /\ rNoise = "none"
    /\ rStyles = <<>>
    /\ rOffsets = <<>>
    /\ rY = Whole(0)
    /\ rendered = <<>>

\* the call, up to the blank canvas of the page's size
RenderMeasure ==
    /\ rPc = "idle"
    /\ Len(rendered) < 2
    /\ LET first == FirstPass(rPage, <<>>, Whole(0))
       IN /\ rData' = first.data
          /\ rPageHeight' = CanvasHeight(first.total)
    /\ rNoise' = "none"
    /\ rStyles' = <<>>
    /\ rOffsets' = <<>>
    /\ rY' = Whole(0)
    /\ rPc' = "texture"
    /\ UNCHANGED <<rPage, rendered>>

\* addPaperTexture: Math.random() decides the grain
RenderTexture(noise) ==
    /\ rPc = "texture"
    /\ rNoise' = noise
    /\ rPc' = "frame"
    /\ UNCHANGED <<rPage, rData, rPageHeight, rStyles, rOffsets, rY, rendered>>

\* drawCornerOrnaments: Math.floor(Math.random() * frameStyles.length) picks the frame
RenderFrame(randomIndex) ==
    /\ rPc = "frame"
    /\ rStyles' = Append(rStyles, randomIndex)
    /\ rPc' = "draw"
    /\ UNCHANGED <<rPage, rData, rPageHeight, rNoise, rOffsets, rY, rendered>>

\* the second pass
RenderDraw ==
    /\ rPc = "draw"
    /\ LET second == SecondPass(rData, <<>>, Whole(MarginTop))
       IN /\ rOffsets' = second.offsets
          /\ rY' = second.y
    /\ rPc' = "aging"
    /\ UNCHANGED <<rPage, rData, rPageHeight, rNoise, rStyles, rendered>>

\* addAgingEffect and the return of the canvas
RenderAging ==
    /\ rPc = "aging"
    /\ rendered' = Append(rendered, [data |-> rData, pageHeight |-> rPageHeight,
                                     offsets |-> rOffsets, noise |-> rNoise, styles |-> rStyles])
    /\ rPc' = "idle"
    /\ UNCHANGED <<rPage, rData, rPageHeight, rNoise, rStyles, rOffsets, rY>>

RenderNext ==
    \/ RenderMeasure /\ UNCHANGED <<docVars, wrapVars, txtVars, pngVars>>
    \/ (\E noise \in Grains : RenderTexture(noise)) /\ UNCHANGED <<docVars, wrapVars, txtVars, pngVars>>
    \/ (\E randomIndex \in 0..(FrameStyleCount - 1) : RenderFrame(randomIndex))
          /\ UNCHANGED <<docVars, wrapVars, txtVars, pngVars>>
    \/ RenderDraw /\ UNCHANGED <<docVars, wrapVars, txtVars, pngVars>>
    \/ RenderAging /\ UNCHANGED <<docVars, wrapVars, txtVars, pngVars>>

----------------------------------------------------------------------------
\* Specifications.

vars == <<docVars, wrapVars, txtVars, pngVars, renderVars>>

otherVars == <<wrapVars, txtVars, pngVars, renderVars>>

Init == DocInit /\ WrapIdle /\ TxtIdle /\ PngIdle /\ RenderIdle

\* the bounds of the exploration: a keystroke, a new block or a merge is
\* explored only while the document stays within them
RoomToQueue == pending < MaxPending

RoomToType ==
    /\ RoomToQueue
    /\ cursor # NoLine
    /\ Len(ActiveBlocks[cursor.blk].text) < MaxText

RoomForBlocks(n) == TotalBlocks(pages) + n <= MaxBlocks

RoomToMerge ==
    /\ CanMerge(ActiveBlocks, cursor)
    /\ Len(ActiveBlocks[cursor.blk - 1].text) + Len(ActiveBlocks[cursor.blk].text) <= MaxText

Next ==
    \/ RoomToType /\ (\E c \in TypeChars : TypeChar(c)) /\ UNCHANGED otherVars
    \/ RoomToQueue /\ DeleteChar /\ UNCHANGED otherVars
    \/ (\E childless \in BOOLEAN : RoomForBlocks(IF childless THEN 2 ELSE 1) /\ Enter(childless))
          /\ UNCHANGED otherVars
    \/ RoomToMerge /\ BackspaceMerge /\ UNCHANGED otherVars
    \/ RoomForBlocks(2) /\ (\E size \in ImageSizes : InsertImage(size)) /\ UNCHANGED otherVars
    \/ (\E b \in 1..MaxBlocks, o \in 0..MaxText : PlaceCursor(b, o)) /\ UNCHANGED otherVars
    \/ (\E index \in -1..MaxBlocks : Navigate(index)) /\ UNCHANGED otherVars
    \/ ClearAllPages /\ UNCHANGED otherVars
    \/ Frame /\ UNCHANGED otherVars
    \/ RunCheck /\ UNCHANGED otherVars

\* the live document: editing, navigation and the deferred overflow checks
Spec == Init /\ [][Next]_vars

\* the text layout function on every text, width and font of the bounds
InitStep == StepDocInit /\ WrapIdle /\ TxtIdle /\ PngIdle /\ RenderIdle

\* nothing has been done to the document yet
NoOpYet == lastOp.op = "init"

\* the last thing done was an edit, or nothing
NoMoveYet == lastOp.op \in {"init", "type", "delete", "enter", "merge", "backspace", "image", "font"}

\* one edit, then one change of page or a new document, and the frames
\* that run the overflow checks queued meanwhile
NextStep ==
    \/ NoOpYet /\ (\E c \in TypeChars : TypeChar(c)) /\ UNCHANGED otherVars
    \/ NoOpYet /\ DeleteChar /\ UNCHANGED otherVars
    \/ NoOpYet /\ (\E childless \in BOOLEAN : Enter(childless)) /\ UNCHANGED otherVars
    \/ NoOpYet /\ BackspaceMerge /\ UNCHANGED otherVars
    \/ NoOpYet /\ (\E removes \in BOOLEAN : BackspaceAtStart(removes)) /\ UNCHANGED otherVars
    \/ NoOpYet /\ (\E size \in ImageSizes : InsertImage(size)) /\ UNCHANGED otherVars
    \/ NoOpYet /\ (\E f \in Fonts : SetFont(f)) /\ UNCHANGED otherVars
    \/ NoMoveYet /\ (\E index \in -1..MaxStepPages : Navigate(index)) /\ UNCHANGED otherVars
    \/ NoMoveYet /\ ClearAllPages /\ UNCHANGED otherVars
    \/ Frame /\ UNCHANGED otherVars
    \/ RunCheck /\ UNCHANGED otherVars

\* every handler on every document of the bounds
SpecStep == InitStep /\ [][NextStep]_vars

InitSettle == SettleDocInit /\ WrapIdle /\ TxtIdle /\ PngIdle /\ RenderIdle

NextSettle ==
    \/ Frame /\ UNCHANGED otherVars
    \/ RunCheck /\ UNCHANGED otherVars

\* the overflow checks left to themselves: the browser runs a frame whenever
\* callbacks are queued, and in a frame every callback it took
SpecSettle ==
    /\ InitSettle
    /\ [][NextSettle]_vars
    /\ WF_vars(Frame /\ UNCHANGED otherVars)
    /\ WF_vars(RunCheck /\ UNCHANGED otherVars)

InitWrap == DocInit /\ WrapInit /\ TxtIdle /\ PngIdle /\ RenderIdle

NextWrap == CallWrapText /\ UNCHANGED <<docVars, txtVars, pngVars, renderVars>>

SpecWrap == InitWrap /\ [][NextWrap]_vars

\* the two exports, each started at most once, on every document of the bounds
InitExport == ExportDocInit /\ WrapIdle /\ TxtIdle /\ PngIdle /\ RenderIdle

NextExport == TxtNext \/ PngNext

SpecExport == InitExport /\ [][NextExport]_vars

InitConcurrent == ExportDocInit /\ WrapIdle /\ TxtIdle /\ PngIdle /\ RenderIdle

\* savePNG is suspended at one of its awaits
ExportRunning == pngPc \notin {"idle", "done"}

\* the raster export with the user at work between its awaits: one edit, one
\* change of page or a new document, and the overflow checks they queue
NextConcurrent ==
    \/ PngNext
    \/ ExportRunning /\ NoOpYet /\ (\E c \in TypeChars : TypeChar(c)) /\ UNCHANGED otherVars
    \/ ExportRunning /\ NoOpYet /\ (\E childless \in BOOLEAN : Enter(childless)) /\ UNCHANGED otherVars
    \/ ExportRunning /\ NoMoveYet
          /\ (\E index \in 0..(MaxExportPages - 1) : Navigate(index)) /\ UNCHANGED otherVars
    \/ ExportRunning /\ NoMoveYet /\ ClearAllPages /\ UNCHANGED otherVars
    \/ Frame /\ UNCHANGED otherVars
    \/ RunCheck /\ UNCHANGED otherVars

SpecConcurrent == InitConcurrent /\ [][NextConcurrent]_vars

InitRender == DocInit /\ WrapIdle /\ TxtIdle /\ PngIdle /\ RenderInit

\* the renderer, twice on every page of the bounds
SpecRender == InitRender /\ [][RenderNext]_vars

----------------------------------------------------------------------------
\* Overflow controller: properties.

RECURSIVE KeepCount(_)
\* the number of leading blocks left when trailing blocks are taken off one
\* at a time until the rest fits the budget or is a single block
KeepCount(blocks) ==
    IF Len(blocks) <= 1 \/ ContentHeight(blocks) <= MAX_PAGE_HEIGHT THEN Len(blocks)
    ELSE KeepCount(SubSeq(blocks, 1, Len(blocks) - 1))

\* no overflow check is queued or running
ChainFinished == pending = 0 /\ running = 0

\* C1: once the checks that follow a keystroke have all run, the page typed
\* into has lost exactly the fewest trailing blocks that make it fit the
\* budget (or leave it one block), wherever the caret was
C1_OverflowConvergence ==
    (chainSrc >= 0 /\ ChainFinished /\ ContentHeight(chainBlocks) > MAX_PAGE_HEIGHT)
        => pages[chainSrc + 1].blocks = SubSeq(chainBlocks, 1, KeepCount(chainBlocks))

\* C2: an overflow check leaves the number of blocks of the document unchanged
C2_PageAccounting ==
    [][RunCheck => TotalBlocks(pages') = TotalBlocks(pages)]_vars

\* C3: a keystroke, Enter, an image insertion and a Backspace merge each
\* queue an overflow check of the active page
C3_EditSchedulesCheck ==
    [][((\E c \in TypeChars : TypeChar(c)) \/ (\E childless \in BOOLEAN : Enter(childless)) \/ BackspaceMerge
            \/ (\E size \in ImageSizes : InsertImage(size)))
        => pending' = pending + 1]_vars

----------------------------------------------------------------------------
\* Text layout engine: properties.

RECURSIVE Flatten(_)
\* the lines of a layout put end to end
Flatten(lines) == IF lines = <<>> THEN <<>> ELSE Head(lines) \o Flatten(Tail(lines))

NonSpace(s) == SelectSeq(s, LAMBDA c : c # " ")

\* a text that is one word: not empty, no space in it
SingleWord(text) == text # <<>> /\ \A i \in 1..Len(text) : text[i] # " "

HasDoubleSpace(text) == \E i \in 1..(Len(text) - 1) : text[i] = " " /\ text[i + 1] = " "

\* C4: every line wrapText returns measures at most maxWidth, unless it is a
\* single character that is itself wider than maxWidth
C4_WrapBounded ==
    wDone => \A i \in 1..Len(wLines) :
                \/ MeasureText(wMetric, wLines[i]) <= wMaxWidth
                \/ Len(wLines[i]) = 1 /\ MeasureText(wMetric, wLines[i]) > wMaxWidth

\* a text with consecutive spaces and an over-wide character has been laid out
C4_Witness ==
    /\ wDone
    /\ HasDoubleSpace(wText)
    /\ Len(wLines) >= 2
    /\ \E i \in 1..Len(wLines) : MeasureText(wMetric, wLines[i]) > wMaxWidth

\* C5 as claimed: the non-space characters survive in order, and a single
\* word wider than maxWidth comes back as two or more chunks that concatenate
\* to the word
C5_WrapKeepsContent_Claimed ==
    wDone =>
        /\ NonSpace(Flatten(wLines)) = NonSpace(wText)
        /\ (SingleWord(wText) /\ MeasureText(wMetric, wText) > wMaxWidth)
              => (Len(wLines) >= 2 /\ Flatten(wLines) = wText)

\* C5 as amended: the same, the two-or-more-chunks part for words of at
\* least two characters; a one-character word wider than maxWidth comes back
\* as the one line it is
C5_WrapKeepsContent ==
    wDone =>
        /\ NonSpace(Flatten(wLines)) = NonSpace(wText)
        /\ (SingleWord(wText) /\ MeasureText(wMetric, wText) > wMaxWidth)
              => /\ Flatten(wLines) = wText
                 /\ Len(wText) >= 2 => Len(wLines) >= 2
                 /\ Len(wText) = 1 => wLines = <<wText>>

\* a word of several characters wider than maxWidth has been split
C5_Witness ==
    /\ wDone
    /\ SingleWord(wText)
    /\ Len(wText) >= 3
    /\ MeasureText(wMetric, wText) > wMaxWidth
    /\ Len(wLines) >= 2

RECURSIVE JoinSpaces(_)
\* lines.join(' ')
JoinSpaces(lines) ==
    IF lines = <<>> THEN <<>>
    ELSE IF Len(lines) = 1 THEN Head(lines)
    ELSE Head(lines) \o <<" ">> \o JoinSpaces(Tail(lines))

RECURSIVE FirstWord(_)
\* the characters of a line before its first space
FirstWord(line) ==
    IF line = <<>> \/ Head(line) = " " THEN <<>> ELSE <<Head(line)>> \o FirstWord(Tail(line))

\* words separated by single spaces, each of them fitting the width
WordsFit(metric, text, maxWidth) ==
    /\ text # <<>>
    /\ text[1] # " "
    /\ text[Len(text)] # " "
    /\ ~HasDoubleSpace(text)
    /\ \A i \in 1..Len(text), j \in 1..Len(text) :
          (i <= j /\ \A k \in i..j : text[k] # " ")
              => MeasureText(metric, SubSeq(text, i, j)) <= maxWidth

\* C25: for words separated by single spaces that each fit maxWidth, the
\* lines are the greedy ones: joined with single spaces they give the text
\* back, each fits maxWidth, and each line together with a space and the
\* first word of the line after it is wider than maxWidth
C25_GreedyWrap ==
    (wDone /\ WordsFit(wMetric, wText, wMaxWidth)) =>
        /\ JoinSpaces(wLines) = wText
        /\ \A i \in 1..Len(wLines) : MeasureText(wMetric, wLines[i]) <= wMaxWidth
        /\ \A i \in 1..(Len(wLines) - 1) :
              MeasureText(wMetric, wLines[i] \o <<" ">> \o FirstWord(wLines[i + 1])) > wMaxWidth

\* three words came back as a line of two words filling the width exactly
\* and a line of one
C25_Witness ==
    /\ wDone
    /\ WordsFit(wMetric, wText, wMaxWidth)
    /\ Len(wLines) = 2
    /\ \E i \in 1..Len(wLines[1]) : wLines[1][i] = " "
    /\ MeasureText(wMetric, wLines[1]) = wMaxWidth

----------------------------------------------------------------------------
\* Plain-text export: properties.

\* the lines of a page, images left out
TextLinesOf(blocks) == SelectSeq(blocks, LAMBDA b : b.kind = "line")

RECURSIVE RefLines(_)
\* each line's text followed by a line terminator
RefLines(lines) ==
    IF lines = <<>> THEN <<>> ELSE Head(lines).text \o <<"\n">> \o RefLines(Tail(lines))

\* the separator announcing page number k, with the given word for "page"
RefSeparator(word, k) ==
    <<"\n", "-", "-", "-", " ">> \o word \o <<" ">> \o Digits(k) \o <<" ", "-", "-", "-", "\n", "\n">>

RECURSIVE RefPages(_, _, _)
\* pages k..N (1-based), the separator for page k+1 after page k when k < N
RefPages(pgs, word, k) ==
    IF k > Len(pgs) THEN <<>>
    ELSE RefLines(TextLinesOf(pgs[k].blocks))
         \o (IF k < Len(pgs) THEN RefSeparator(word, k + 1) ELSE <<>>)
         \o RefPages(pgs, word, k + 1)

RECURSIVE RefTrim(_)
RefTrim(s) ==
    IF s = <<>> THEN s
    ELSE IF s[Len(s)] = " " \/ s[Len(s)] = "\n" THEN RefTrim(SubSeq(s, 1, Len(s) - 1))
    ELSE s

\* the reference export
RefExport(pgs, word) == RefTrim(RefPages(pgs, word, 1))

\* the blocks of each page of the document
DocBlocks == [k \in 1..Len(pages) |-> pages[k].blocks]

OnePageOneLine ==
    /\ Len(pages) = 1
    /\ Len(pages[1].blocks) = 1
    /\ pages[1].blocks[1].kind = "line"

PagesAB ==
    DocBlocks = << <<Line(<<"A">>, DefaultFont)>>, <<Line(<<"B">>, DefaultFont)>> >>

\* C7 as claimed: the exported text is the reference export with the
\* separator "\n--- Page k+1 ---\n\n"; a one-line document exports its text;
\* pages ["A"], ["B"] export "A\n\n--- Page 2 ---\n\nB"
C7_TextExport_Claimed ==
    txtPc # "idle" =>
        /\ txtText = RefExport(pages, <<"P", "a", "g", "e">>)
        /\ OnePageOneLine => txtText = RefTrim(pages[1].blocks[1].text)
        /\ PagesAB => txtText = <<"A", "\n", "\n", "-", "-", "-", " ", "P", "a", "g", "e", " ",
                                  "2", " ", "-", "-", "-", "\n", "\n", "B">>

\* C7 as amended: the same with the separator "\n--- Seite k+1 ---\n\n"
C7_TextExport ==
    txtPc # "idle" =>
        /\ txtText = RefExport(pages, <<"S", "e", "i", "t", "e">>)
        /\ OnePageOneLine => txtText = RefTrim(pages[1].blocks[1].text)
        /\ PagesAB => txtText = <<"A", "\n", "\n", "-", "-", "-", " ", "S", "e", "i", "t", "e", " ",
                                  "2", " ", "-", "-", "-", "\n", "\n", "B">>

\* a document of three pages with an image and trailing whitespace was exported
C7_Witness ==
    /\ txtPc = "done"
    /\ Len(pages) = 3
    /\ \E i \in 1..Len(txtLog) : txtLog[i].ev = "write" /\ txtLog[i].res = "ok"
    /\ Len(pages[3].blocks) = 3
    /\ pages[1].blocks[1].text = <<"A">>

----------------------------------------------------------------------------
\* Raster export: properties.

\* a page with non-blank text or at least one image
Qualifies(blocks) ==
    \E i \in 1..Len(blocks) :
        \/ blocks[i].kind = "image"
        \/ blocks[i].kind = "line" /\ \E j \in 1..Len(blocks[i].text) : blocks[i].text[j] \notin {" ", "\n"}

\* 0-based indices of the qualifying pages
QualifyingPages == {k \in 0..(Len(pages) - 1) : Qualifies(pages[k + 1].blocks)}

EventsOf(kind) == SelectSeq(pngLog, LAMBDA e : e.ev = kind)

Count(kind) == Len(EventsOf(kind))

PngThrew == \E i \in 1..Len(pngLog) : pngLog[i].res = "throw"

PngCancelled == \E i \in 1..Len(pngLog) : pngLog[i].res = "cancel"

PngStarted == pngPc # "idle"

\* what C8 says of every export: the pages kept are the qualifying ones, in
\* page order, only they are rendered, and with none nothing happens at all
SelectionPart ==
    /\ {pagesWithContent[i] : i \in 1..Len(pagesWithContent)} = QualifyingPages
    /\ \A i, j \in 1..Len(pagesWithContent) : i < j => pagesWithContent[i] < pagesWithContent[j]
    /\ \A i \in 1..Len(pngLog) : pngLog[i].ev = "render" => pngLog[i].page \in QualifyingPages
    /\ QualifyingPages = {} => (pngPc = "done" /\ pngLog = <<>>)

PositionOf(page) ==
    IF \E i \in 1..Len(pagesWithContent) : pagesWithContent[i] = page
    THEN CHOOSE i \in 1..Len(pagesWithContent) : pagesWithContent[i] = page
    ELSE 0

\* C9: with more than one qualifying page the directory prompt occurs once,
\* first; the k-th write is of the k-th qualifying page to the file numbered
\* k; and the render of the i-th qualifying page comes right after the
\* finished write (in the fallback, download) of the (i-1)-th
C9_MultiPageOrder ==
    (PngStarted /\ Len(pagesWithContent) > 1) =>
        /\ Count("open") <= 1
        /\ Count("save") = 0
        /\ pngPc # "m_dialog" => (Count("open") = 1 /\ pngLog[1].ev = "open")
        /\ LET writes == EventsOf("write")
           IN \A k \in 1..Len(writes) :
                 /\ writes[k].page = pagesWithContent[k]
                 /\ writes[k].file = <<"dokument_seite_">> \o Digits(k) \o <<".png">>
        /\ \A j \in 1..Len(pngLog) :
              (pngLog[j].ev = "render" /\ PositionOf(pngLog[j].page) > 1)
                 => /\ pngLog[j - 1].ev \in {"write", "download"}
                    /\ pngLog[j - 1].res = "ok"
                    /\ pngLog[j - 1].page = pagesWithContent[PositionOf(pngLog[j].page) - 1]
        /\ (pngPc = "done" /\ ~PngThrew /\ ~PngCancelled)
              => Count("write") = Len(pagesWithContent)

\* three qualifying pages of which the second page of the document is not one
\* have been written in order
C9_Witness ==
    /\ pngPc = "done"
    /\ pagesWithContent = <<0, 2>>
    /\ Count("write") = 2
    /\ ~PngThrew

TxtThrew == \E i \in 1..Len(txtLog) : txtLog[i].res = "throw"

TxtCancelled == \E i \in 1..Len(txtLog) : txtLog[i].res = "cancel"

TxtDownloads == SelectSeq(txtLog, LAMBDA e : e.ev = "download")

\* the downloads are one raster per qualifying page, in page order
DownloadsCoverPages ==
    LET downloads == EventsOf("download")
    IN /\ Len(downloads) = Len(pagesWithContent)
       /\ \A k \in 1..Len(downloads) : downloads[k].page = pagesWithContent[k]

NoRejection == txtPc # "rejected" /\ pngPc # "rejected"

\* C10 as claimed: a cancelled or throwing dialog, or a throwing write, ends
\* in the download of the text, respectively of one raster per qualifying
\* page, and no exception leaves the export
C10_FailureFallback_Claimed ==
    /\ NoRejection
    /\ (txtPc = "done" /\ (TxtThrew \/ TxtCancelled))
          => (Len(TxtDownloads) = 1 /\ TxtDownloads[1].data = txtText)
    /\ (pngPc = "done" /\ (PngThrew \/ PngCancelled)) => DownloadsCoverPages

\* C10 as amended: a throwing dialog or write ends in the download; a
\* cancelled dialog ends the export with nothing written and nothing
\* downloaded; no exception leaves the export
C10_FailureFallback ==
    /\ NoRejection
    /\ (txtPc = "done" /\ TxtThrew)
          => (Len(TxtDownloads) = 1 /\ TxtDownloads[1].data = txtText)
    /\ (txtPc = "done" /\ TxtCancelled)
          => \A i \in 1..Len(txtLog) : txtLog[i].ev \notin {"write", "download"}
    /\ (pngPc = "done" /\ PngThrew) => DownloadsCoverPages
    /\ (pngPc = "done" /\ PngCancelled) => (Count("write") = 0 /\ Count("download") = 0)
    /\ (pngPc = "done" /\ ~PngThrew) => Count("download") = 0

\* a write of the second of three pages threw and all three were downloaded,
\* and the text export fell back too
C10_Witness ==
    /\ pngPc = "done"
    /\ txtPc = "done"
    /\ TxtThrew
    /\ Len(pagesWithContent) = 3
    /\ Count("write") = 2
    /\ Count("download") = 3

\* the position in pngLog of the first write that threw, 0 when none did
FirstFailedWrite ==
    LET failed == {j \in 1..Len(pngLog) : pngLog[j].ev = "write" /\ pngLog[j].res = "throw"}
    IN IF failed = {} THEN 0 ELSE CHOOSE j \in failed : \A k \in failed : j <= k

NumberedName(k) == <<"dokument_seite_">> \o Digits(k) \o <<".png">>

\* C11 as claimed: when a write fails in a multi-page export the loop goes
\* on, so every qualifying page is still written to its numbered file
C11_BestEffort_Claimed ==
    (pngPc = "done" /\ Len(pagesWithContent) > 1 /\ FirstFailedWrite # 0) =>
        \A k \in 1..Len(pagesWithContent) :
            \E j \in 1..Len(pngLog) :
                /\ pngLog[j].ev = "write"
                /\ pngLog[j].page = pagesWithContent[k]
                /\ pngLog[j].file = NumberedName(k)

\* C11 as amended: when a write fails in a multi-page export the directory
\* loop ends there: nothing more is written, and every qualifying page, those
\* already written included, is rendered again and downloaded under its
\* numbered name, in page order
C11_WriteFailure ==
    (Len(pagesWithContent) > 1 /\ FirstFailedWrite # 0) =>
        LET j == FirstFailedWrite
            rest == SubSeq(pngLog, j + 1, Len(pngLog))
        IN /\ \A i \in 1..Len(rest) : rest[i].ev \in {"render", "download"}
           /\ \A i \in 1..(j - 1) : pngLog[i].res # "throw"
           /\ \A i \in 1..Len(rest) :
                 /\ rest[i].page = pagesWithContent[(i + 1) \div 2]
                 /\ rest[i].ev = (IF i % 2 = 1 THEN "render" ELSE "download")
                 /\ rest[i].ev = "download" => rest[i].file = NumberedName(i \div 2)
           /\ pngPc = "done" => Len(rest) = 2 * Len(pagesWithContent)

\* the write of the first of two qualifying pages threw and both were downloaded
C11_Witness ==
    /\ pngPc = "done"
    /\ Len(pagesWithContent) = 2
    /\ FirstFailedWrite = 3
    /\ Count("download") = 2
    /\ Count("write") = 1

\* a step of savePNG
ExportStep == pngPc' # pngPc \/ pngI' # pngI \/ pngLog' # pngLog

\* C27: the pages to export and their order are fixed when the export
\* starts. Whatever edits, migrations or clears happen between its steps, an
\* export of k > 1 pages that meets no failure and no cancel ends with k
\* writes, the i-th of the i-th page kept to the file numbered i; and no
\* step of the export changes a page, a block, the current index or the caret
C27_ExportAgainstEdits ==
    /\ [](pngPc = "done" /\ Len(pagesWithContent) > 1 /\ ~PngThrew /\ ~PngCancelled
             => LET writes == EventsOf("write")
                IN /\ Len(writes) = Len(pagesWithContent)
                   /\ \A i \in 1..Len(writes) :
                         /\ writes[i].page = pagesWithContent[i]
                         /\ writes[i].file = NumberedName(i))
    /\ [][PngStarted => pagesWithContent' = pagesWithContent]_vars
    /\ [][ExportStep => UNCHANGED <<pages, currentPageIndex, cursor, stateFont, pending, running>>]_vars

\* three pages were being exported when the document was cleared: one page
\* is left, three files were written
C27_Witness ==
    /\ pngPc = "done"
    /\ Len(pagesWithContent) = 3
    /\ Len(pages) = 1
    /\ Count("write") = 3
    /\ ~PngThrew

----------------------------------------------------------------------------
\* Page navigator: properties.

NavigatorState == <<pages, currentPageIndex, pageIndicator, prevDisabled, nextDisabled>>

\* the caret is at the start of the first line of the page, or in no line
\* when the page has none
AtFirstLineStart(blocks, c) ==
    IF \E i \in 1..Len(blocks) : blocks[i].kind = "line"
    THEN /\ c # NoLine
         /\ c.off = 0
         /\ blocks[c.blk].kind = "line"
         /\ \A j \in 1..(c.blk - 1) : blocks[j].kind = "image"
    ELSE c = NoLine

\* C12 as claimed: goTo(currentIndex) changes nothing: not the pages, the
\* active page, the indicator, the buttons, nor the cursor
C12_IdempotentNavigation_Claimed ==
    [][Navigate(currentPageIndex) => (UNCHANGED NavigatorState /\ UNCHANGED cursor)]_vars

\* C12 as amended: goTo(currentIndex) changes neither the pages, the active
\* page, the indicator nor the buttons, and puts the cursor at the start of
\* the first TextLine of the page
C12_SamePageNavigation ==
    [][Navigate(currentPageIndex) =>
          (UNCHANGED NavigatorState /\ AtFirstLineStart(ActiveBlocks, cursor'))]_vars

\* goTo(1) was called on page 2, whose first line has text
C12_Witness ==
    /\ lastOp.op = "nav"
    /\ lastOp.arg = lastOp.from
    /\ currentPageIndex = 1
    /\ ActiveBlocks[1].kind = "line"
    /\ ActiveBlocks[1].text # <<>>

\* C13: goTo(i) with i < 0 or i >= N changes nothing: the pages and their
\* active flags, currentIndex, the indicator, the buttons and the cursor stay
C13_OutOfRangeNavigation ==
    [][(\E index \in -1..MaxBlocks :
           (index < 0 \/ index >= Len(pages)) /\ Navigate(index))
          => (UNCHANGED NavigatorState /\ UNCHANGED cursor)]_vars

\* next was asked for on the last of two pages, the caret inside a line
C13_Witness ==
    /\ lastOp.op = "nav"
    /\ lastOp.arg = Len(pages)
    /\ Len(pages) = 2
    /\ currentPageIndex = 1
    /\ cursor.off > 0

\* C14: currentIndex is the index of a page, that page and no other is
\* active, the indicator shows currentIndex + 1 and the number of pages, prev
\* is disabled exactly on the first page and next exactly on the last
C14_NavigatorConsistency ==
    /\ currentPageIndex \in 0..(Len(pages) - 1)
    /\ \A k \in 1..Len(pages) : pages[k].active <=> (k = currentPageIndex + 1)
    /\ pageIndicator = <<"S", "e", "i", "t", "e", " ">> \o Digits(currentPageIndex + 1)
                          \o <<" ", "/", " ">> \o Digits(Len(pages))
    /\ prevDisabled <=> (currentPageIndex = 0)
    /\ nextDisabled <=> (currentPageIndex = Len(pages) - 1)

\* an overflow created page 2 without the cursor following, then next was clicked
C14_Witness ==
    /\ Len(pages) = 2
    /\ currentPageIndex = 1
    /\ lastOp.op = "nav"
    /\ lastOp.from = 0
    /\ Len(pages[1].blocks) = 2

\* C15: there is always a page; the page sequence grows only by one page at
\* the tail, in an overflow check, and shrinks only from the tail, in a clear;
\* the pages that stay keep their places and page 1 always stays
C15_DocumentShape ==
    [][LET n == Len(pages)
           m == Len(pages')
       IN /\ n >= 1 /\ m >= 1
          /\ \A k \in 1..(IF m < n THEN m ELSE n) : pages'[k].num = pages[k].num
          /\ \A k \in 1..m : \A j \in 1..m : k < j => pages'[k].num < pages'[j].num
          /\ m > n => (m = n + 1 /\ lastOp'.op = "check")
          /\ m < n => lastOp'.op = "clear"]_vars

\* a document of two pages was cleared from its second page
C15_Witness ==
    /\ lastOp.op = "clear"
    /\ lastOp.from = 1
    /\ Len(pages) = 1
    /\ pages[1].num = 1

----------------------------------------------------------------------------
\* Export renderer: properties.

\* Export page height, stated without the renderer's arithmetic.

\* <<w, h>> is the size the export draws an image of natural size <<nw, nh>> at:
\* same aspect ratio, not enlarged, inside the limits, and as large as that allows
IsScaledSize(w, h, nw, nh) ==
    /\ RatMul(w, Whole(nh)) = RatMul(h, Whole(nw))
    /\ RatLeq(w, Whole(nw)) /\ RatLeq(h, Whole(nh))
    /\ RatLeq(w, Whole(ImgMaxWidth)) /\ RatLeq(h, Whole(ImgMaxHeight))
    /\ \/ w = Whole(nw)
       \/ w = Whole(ImgMaxWidth)
       \/ h = Whole(ImgMaxHeight)

\* renderData entries that come before the entries of child k
ItemsBefore(children, k) ==
    LET F[i \in 0..(k - 1)] ==
          IF i = 0 THEN 0
          ELSE F[i - 1] + (IF children[i].kind = "image" \/ IsBlank(children[i].text) THEN 1
                           ELSE Len(WrapText(FontMetric(children[i].font), children[i].text,
                                             PageTextWidth)))
    IN F[k - 1]

\* what child k adds to the content height, read off the renderData
Contribution(children, data, k) ==
    LET first == ItemsBefore(children, k) + 1
        after == ItemsBefore(children, k + 1)
    IN IF children[k].kind = "image" THEN RatAdd(data[first].height, Whole(ImageMargin))
       ELSE IF IsBlank(children[k].text) THEN Whole(LineHeight)
       ELSE Whole(LineHeight * (after - first + 1))

\* sum of the contributions of the first k children
RefContentHeight(children, data, k) ==
    LET F[i \in 0..k] ==
          IF i = 0 THEN Whole(0) ELSE RatAdd(F[i - 1], Contribution(children, data, i))
    IN F[k]

Measured == rPc # "idle"

\* C17 (export page height): once a page is measured, its height is the top
\* margin plus the bottom margin plus, for its blocks in order, one line height
\* per wrapped line of a line with text, exactly one line height for a blank
\* line, and the scaled height plus the image margin for an image; the scaled
\* size keeps the aspect ratio, never enlarges, and fits the limits.
C17_ExportPageHeight ==
    Measured =>
        /\ Len(rData) = ItemsBefore(rPage, Len(rPage) + 1)
        /\ \A k \in 1..Len(rPage) :
              LET item == rData[ItemsBefore(rPage, k) + 1]
              IN IF rPage[k].kind = "image"
                 THEN /\ item.type = "image"
                      /\ IsScaledSize(item.width, item.height, rPage[k].img[1], rPage[k].img[2])
                 ELSE IF IsBlank(rPage[k].text)
                 THEN item.type = "empty"
                 ELSE \A j \in (ItemsBefore(rPage, k) + 1)..ItemsBefore(rPage, k + 1) :
                         rData[j].type = "text"
        /\ rPageHeight = RatAdd(Whole(MarginTop + MarginBottom),
                                RefContentHeight(rPage, rData, Len(rPage)))

\* a measured page with a line of two wrapped lines, a blank line, and an image
\* that had to be reduced to a height that is not a whole number
C17_Witness ==
    /\ Measured
    /\ \E k \in 1..Len(rPage) :
          /\ rPage[k].kind = "line"
          /\ ItemsBefore(rPage, k + 1) - ItemsBefore(rPage, k) >= 2
    /\ \E k \in 1..Len(rPage) : rPage[k].kind = "line" /\ IsBlank(rPage[k].text)
    /\ \E j \in 1..Len(rData) :
          /\ rData[j].type = "image"
          /\ rData[j].height.d # 1
    /\ rPageHeight.d # 1

\* the layout of a finished render: what the random choices must not touch
Layout(canvas) == [data |-> canvas.data, offsets |-> canvas.offsets, pageHeight |-> canvas.pageHeight]

LayoutDeterministic == \A i, j \in 1..Len(rendered) : Layout(rendered[i]) = Layout(rendered[j])

OneFramePerRender ==
    /\ \A i \in 1..Len(rendered) :
          /\ Len(rendered[i].styles) = 1
          /\ rendered[i].styles[1] \in 0..(FrameStyleCount - 1)
    /\ Len(rStyles) <= 1
    /\ rPc \in {"idle", "texture", "frame"} /\ rendered = <<>> => rStyles = <<>>

\* a random choice is made on a canvas whose height is already set and stays
RandomAfterHeight ==
    (rNoise' # rNoise \/ rStyles' # rStyles) /\ rPc # "idle"
        => /\ rPageHeight' = rPageHeight
           /\ rData' = rData
           /\ rPc \in {"texture", "frame"}

\* C18 (render determinism): renders of the same page have the same wrapped
\* lines, the same vertical offsets and the same page height whatever frame and
\* grain were drawn; each render draws exactly one of the five frames, and
\* draws it on a canvas whose height was fixed before.
C18_RenderDeterminism ==
    /\ [](LayoutDeterministic /\ OneFramePerRender)
    /\ [][RandomAfterHeight]_vars

\* two finished renders of one page that drew different frames and grain
C18_Witness ==
    /\ Len(rendered) = 2
    /\ rendered[1].styles # rendered[2].styles
    /\ rendered[1].noise # rendered[2].noise
    /\ Len(rendered[1].offsets) >= 2

----------------------------------------------------------------------------
\* Document handlers: properties.

EmptyLineIn(font) == [kind |-> "line", text |-> <<>>, font |-> font, img |-> <<0, 0>>]

\* one page, the first, shown, holding one empty line in the selected font
ClearedDocument ==
    /\ Len(pages) = 1
    /\ pages[1].num = 1
    /\ pages[1].active
    /\ pages[1].blocks = <<EmptyLineIn(stateFont)>>
    /\ currentPageIndex = 0

\* C16: a clear leaves the first page alone, shown, holding one empty line in
\* the selected font, with currentIndex 0, and the overflow checks that were
\* pending leave it so when they run
C16_ClearDocument ==
    [][/\ ClearAllPages => ClearedDocument'
       /\ (ClearedDocument /\ lastOp.op \in {"clear", "frame", "check"} /\ (Frame \/ RunCheck))
             => ClearedDocument']_vars

\* the document was cleared from its second page, a check still pending, the
\* other font selected
C16_Witness ==
    /\ lastOp.op = "clear"
    /\ lastOp.from = 1
    /\ pending = 1
    /\ stateFont = "adler"
    /\ ClearedDocument

\* the place an image goes to: after the caret's line, else after the last
\* line of the page, else the end of the page
ImagePlace(blocks, c) ==
    IF c # NoLine THEN c.blk
    ELSE IF \E i \in 1..Len(blocks) : blocks[i].kind = "line"
         THEN CHOOSE i \in 1..Len(blocks) :
                 blocks[i].kind = "line" /\ \A j \in (i + 1)..Len(blocks) : blocks[j].kind = "image"
         ELSE Len(blocks)

\* C19: an image insertion adds two blocks to the active page and nothing
\* else: the image and right after it an empty line in the selected font,
\* placed after the caret's line, else after the last line, else at the end
C19_ImageInsertion ==
    [][(\E size \in ImageSizes : InsertImage(size)) =>
          LET old == ActiveBlocks
              new == pages'[currentPageIndex + 1].blocks
              at == ImagePlace(old, cursor)
          IN /\ Len(new) = Len(old) + 2
             /\ SubSeq(new, 1, at) = SubSeq(old, 1, at)
             /\ new[at + 1].kind = "image"
             /\ new[at + 2] = EmptyLineIn(stateFont)
             /\ SubSeq(new, at + 3, Len(new)) = SubSeq(old, at + 1, Len(old))
             /\ Len(pages') = Len(pages)
             /\ \A k \in 1..Len(pages) : k # currentPageIndex + 1 => pages'[k] = pages[k]]_vars

\* an image was appended to a page that held only an image
C19_Witness ==
    /\ lastOp.op = "image"
    /\ currentPageIndex = 1
    /\ Len(ActiveBlocks) = 3
    /\ ActiveBlocks[1].kind = "image"
    /\ ActiveBlocks[2].kind = "image"
    /\ ActiveBlocks[3] = EmptyLineIn("adler")
    /\ cursor = NoLine

\* the page is over the budget and has two blocks or more
Overflowing(blocks) == SumHeights(blocks) + 80 > 1200 /\ Len(blocks) >= 2

\* C20: a migration step takes the last block of the active page k to the
\* head of page k+1, which is created only when k was the last page; an empty
\* TextLine at the head of page k+1 is dropped, every other block keeps its
\* page and its place
C20_MigrationStep ==
    [][(RunCheck /\ Overflowing(ActiveBlocks)) =>
          LET k == currentPageIndex + 1
              old == pages[k].blocks
              created == k = Len(pages)
              nextOld == IF created THEN <<EmptyLineIn(stateFont)>> ELSE pages[k + 1].blocks
              kept == IF nextOld[1].kind = "line" /\ nextOld[1].text = <<>>
                      THEN Tail(nextOld) ELSE nextOld
          IN /\ Len(pages') = (IF created THEN Len(pages) + 1 ELSE Len(pages))
             /\ pages'[k].blocks = SubSeq(old, 1, Len(old) - 1)
             /\ pages'[k + 1].blocks = <<old[Len(old)]>> \o kept
             /\ \A j \in 1..Len(pages) : j \notin {k, k + 1} => pages'[j].blocks = pages[j].blocks]_vars

\* the blocks of page k+1 before a migration step from page k (1-based), the
\* page just created counting as one empty line
NextBefore(k) ==
    IF k = Len(pages) THEN <<EmptyLineIn(stateFont)>> ELSE pages[k + 1].blocks

IsEmptyLine(b) == b.kind = "line" /\ b.text = <<>>

\* C21: in a migration step a block of the next page is dropped only if it
\* is that page's first block and an empty TextLine; every other block of
\* the next page stays, in order, behind the migrated block at position 0
C21_PlaceholderDiscard ==
    [][(RunCheck /\ Overflowing(ActiveBlocks)) =>
          LET k == currentPageIndex + 1
              old == pages[k].blocks
              before == NextBefore(k)
              after == pages'[k + 1].blocks
          IN /\ after[1] = old[Len(old)]
             /\ \/ Tail(after) = before
                \/ IsEmptyLine(before[1]) /\ Tail(after) = Tail(before)]_vars

\* the pages shown, as 0-based indices
ShownPages(pgs) == {j \in 0..(Len(pgs) - 1) : pgs[j + 1].active}

\* C22: when a migration step takes the block the caret is in, page k+1
\* becomes the active page and the caret goes to the end of that block's
\* content; when the caret is elsewhere the step leaves the active page and
\* the caret as they were
C22_CursorFollow ==
    [][(RunCheck /\ Overflowing(ActiveBlocks)) =>
          LET old == ActiveBlocks
              migrated == old[Len(old)]
              inMigrated == cursor # NoLine /\ cursor.blk = Len(old)
          IN IF inMigrated
             THEN /\ currentPageIndex' = currentPageIndex + 1
                  /\ ShownPages(pages') = {currentPageIndex + 1}
                  /\ pages'[currentPageIndex' + 1].blocks[1] = migrated
                  /\ cursor' = [blk |-> 1, off |-> Len(migrated.text)]
             ELSE /\ currentPageIndex' = currentPageIndex
                  /\ ShownPages(pages') = ShownPages(pages)
                  /\ cursor' = cursor]_vars

\* a step took the line the caret was in the middle of: the caret is at its
\* end on the next page, now shown
C22_Witness ==
    /\ lastOp = [op |-> "check", arg |-> 1, from |-> 0]
    /\ currentPageIndex = 1
    /\ cursor = [blk |-> 1, off |-> 2]
    /\ Len(ActiveBlocks[1].text) = 2
    /\ chainSrc = 0

\* C23: with no further edits every chain of overflow checks comes to an
\* end, no check pending or running, also with several checks queued at
\* once and when a step moves the active page; a check that finds a single
\* block on the active page moves nothing and queues nothing, whatever the
\* block's height
C23_OverflowTermination ==
    /\ <>[]ChainFinished
    /\ [][(RunCheck /\ Len(ActiveBlocks) = 1) =>
             /\ pages' = pages
             /\ pending' = pending
             /\ currentPageIndex' = currentPageIndex]_vars

\* the chain has ended: the steps followed the caret to the next page, moved
\* on what that page held and stopped at a single line over the budget alone
C23_Witness ==
    /\ ChainFinished
    /\ lastOp = [op |-> "check", arg |-> 0, from |-> 1]
    /\ currentPageIndex = 1
    /\ Len(ActiveBlocks) = 1
    /\ ContentHeight(ActiveBlocks) > MAX_PAGE_HEIGHT
    /\ Len(pages) = 3

IsPrefix(s, t) == Len(s) <= Len(t) /\ s = SubSeq(t, 1, Len(s))

\* s is t, or t with one element taken out
IsWithoutOne(s, t) == s = t \/ \E i \in 1..Len(t) : s = RemoveAt(t, i)

\* C24: no operation but the clear moves a block or its text to an earlier
\* page. Pages never go away; an edit or a navigation changes the blocks of
\* the active page at most; an overflow check only shortens the active page
\* at its end and adds what it took at the head of the next page, so no page
\* is ever filled from a later one
C24_NoBackwardMovement ==
    [][\/ ClearAllPages
       \/ LET k == currentPageIndex + 1
          IN /\ Len(pages') >= Len(pages)
             /\ \A j \in 1..Len(pages) :
                   \/ pages'[j].blocks = pages[j].blocks
                   \/ /\ j = k
                      /\ ~RunCheck
                      /\ \A i \in 1..Len(pages') : i # k => i > Len(pages) \/ pages'[i].blocks = pages[i].blocks
                   \/ /\ j = k
                      /\ RunCheck
                      /\ IsPrefix(pages'[j].blocks, pages[j].blocks)
                   \/ /\ j = k + 1
                      /\ RunCheck
                      /\ pages'[j].blocks[1] = pages[k].blocks[Len(pages[k].blocks)]
                      /\ IsWithoutOne(Tail(pages'[j].blocks), pages[j].blocks)
             /\ \A j \in (Len(pages) + 1)..Len(pages') :
                   /\ RunCheck
                   /\ j = k + 1
                   /\ pages'[j].blocks = <<pages[k].blocks[Len(pages[k].blocks)]>>]_vars

\* a check ran on the second page while the first page was under the budget:
\* the second page gave its last block to a third page, the first got nothing
C24_Witness ==
    /\ lastOp = [op |-> "check", arg |-> 1, from |-> 1]
    /\ Len(pages) = 3
    /\ ContentHeight(pages[1].blocks) <= MAX_PAGE_HEIGHT
    /\ Len(pages[1].blocks) = 1

\* C26: an overflow check works on the page that is active when it runs: it
\* migrates exactly when that page is over the budget with two blocks or
\* more, and changes no page but that one and the one after it; the page
\* whose edit queued the check is left as it is when another page is active
C26_CheckOnActivePage ==
    [][RunCheck =>
          LET k == currentPageIndex + 1
          IN /\ (pages' # pages) <=> Overflowing(pages[k].blocks)
             /\ \A j \in 1..Len(pages) : j \notin {k, k + 1} => pages'[j] = pages[j]
             /\ ~Overflowing(pages[k].blocks) => UNCHANGED <<currentPageIndex, cursor, pending>>]_vars

\* a keystroke on the first page queued the checks; the first step followed
\* the caret to the second page, the next check ran there and migrated from
\* there, and the first page is still over the budget
C26_Witness ==
    /\ lastOp = [op |-> "check", arg |-> 1, from |-> 1]
    /\ chainSrc = 0
    /\ Overflowing(pages[1].blocks)
    /\ Len(pages) = 3

\* C28: every page holds at least one block, whatever typing, Enter,
\* Backspace merges, image insertions, overflow migrations, navigation and
\* clears came before; a migration leaves a block on the page it takes from
\* and the page it gives to is not empty once the placeholder is gone
C28_NoEmptyPage ==
    /\ \A j \in 1..Len(pages) : Len(pages[j].blocks) >= 1
    /\ (lastOp.op = "check" /\ lastOp.arg = 1) =>
          /\ Len(pages) >= lastOp.from + 2
          /\ Len(pages[lastOp.from + 1].blocks) >= 1
          /\ Len(pages[lastOp.from + 2].blocks) >= 1

\* a migration took the second of two blocks to a page just created: the
\* source keeps one block, the destination holds the migrated block alone
C28_Witness ==
    /\ lastOp.op = "check"
    /\ lastOp.arg = 1
    /\ Len(pages) = lastOp.from + 2
    /\ Len(pages[lastOp.from + 1].blocks) = 1
    /\ Len(pages[lastOp.from + 2].blocks) = 1

\* the lines of an editor in document order, images left out
RECURSIVE LinesOf(_)
LinesOf(blocks) ==
    IF blocks = <<>> THEN <<>>
    ELSE IF Head(blocks).kind = "line" THEN <<Head(blocks).text>> \o LinesOf(Tail(blocks))
    ELSE LinesOf(Tail(blocks))

\* Enter at offset p of a line with text t leaves two adjacent lines with
\* t[0..p) and t[p..), one block more, and the caret at the start of the second
EnterSplits ==
    LET before == ActiveBlocks
        after == pages'[currentPageIndex + 1].blocks
        t == before[cursor.blk].text
    IN  ((\E childless \in BOOLEAN : Enter(childless)) /\ cursor # NoLine) =>
            /\ Len(after) = Len(before) + 1
            /\ after[cursor.blk].kind = "line"
            /\ after[cursor.blk].text = SubSeq(t, 1, cursor.off)
            /\ after[cursor.blk + 1].kind = "line"
            /\ after[cursor.blk + 1].text = SubSeq(t, cursor.off + 1, Len(t))
            /\ cursor' = [blk |-> cursor.blk + 1, off |-> 0]
            /\ Flatten(LinesOf(after)) = Flatten(LinesOf(before))

\* Backspace at the start of a line that follows a line leaves one line with
\* the two texts joined, one block less, and the caret at the join
BackspaceJoins ==
    LET before == ActiveBlocks
        after == pages'[currentPageIndex + 1].blocks
    IN  BackspaceMerge =>
            /\ Len(after) = Len(before) - 1
            /\ after[cursor.blk - 1].text =
                   before[cursor.blk - 1].text \o before[cursor.blk].text
            /\ cursor' = [blk |-> cursor.blk - 1, off |-> Len(before[cursor.blk - 1].text)]
            /\ Flatten(LinesOf(after)) = Flatten(LinesOf(before))

\* Backspace at the start of a line that follows an image or nothing leaves
\* every line as it was
BackspaceKeepsLines ==
    (\E removes \in BOOLEAN : BackspaceAtStart(removes)) =>
        LinesOf(pages'[currentPageIndex + 1].blocks) = LinesOf(ActiveBlocks)

\* C29: Enter splits the caret's line into two adjacent lines and Backspace
\* at the start of a line after a line joins the two, so that Enter followed
\* by Backspace restores text, block count and caret, neither changes the
\* concatenated text, and Backspace after an image or nothing merges nothing
C29_EnterBackspaceRoundTrip ==
    [][EnterSplits /\ BackspaceJoins /\ BackspaceKeepsLines]_vars

----------------------------------------------------------------------------
\* Export renderer: measure pass against draw pass.

\* the second pass of the call is over: yPosition has its last value
Drawn == rPc = "aging" \/ (rPc = "idle" /\ rendered # <<>>)

\* totalContentHeight of the call: the page height without the two margins
MeasuredContentHeight == RatSub(rPageHeight, Whole(MarginTop + MarginBottom))

\* what wrapText gives the measure pass for a line of the page
WrappedLinesOf(child) == WrapText(FontMetric(FontInfo(child.font)), child.text, PageTextWidth)

\* C30 (measure/draw agreement): once a page is drawn, the advances of
\* yPosition in the second pass add up to the content height of the first pass,
\* so yPosition ends at the top margin plus the content height; and for every
\* line of the page that is not blank wrapText returns at least one line and
\* no empty line, so the line-height kept for a wrap result of zero lines is
\* never added.
C30_MeasureDrawAgreement ==
    /\ Drawn =>
          /\ RatSub(rY, Whole(MarginTop)) = MeasuredContentHeight
          /\ rY = RatAdd(Whole(MarginTop), MeasuredContentHeight)
    /\ \A k \in 1..Len(rPage) :
          rPage[k].kind = "line" /\ ~IsBlank(rPage[k].text) =>
              /\ Len(WrappedLinesOf(rPage[k])) >= 1
              /\ \A i \in 1..Len(WrappedLinesOf(rPage[k])) : WrappedLinesOf(rPage[k])[i] # <<>>

\* a drawn page with a line wrapped into two lines or more, a line of one
\* space, and an image reduced to a height that is not a whole number
C30_Witness ==
    /\ Drawn
    /\ \E k \in 1..Len(rPage) :
          rPage[k].kind = "line" /\ Len(WrappedLinesOf(rPage[k])) >= 2
    /\ \E k \in 1..Len(rPage) :
          rPage[k].kind = "line" /\ rPage[k].text # <<>> /\ IsBlank(rPage[k].text)
    /\ \E j \in 1..Len(rData) : rData[j].type = "image" /\ rData[j].height.d # 1
    /\ rY.d # 1

=============================================================================
